---- MODULE Spec2Model ----
(***************************************************************************)
(* dynafield: runtime field descriptors, the record types built from them, *)
(* descriptor inference from function signatures, the record schema        *)
(* registry and BaseModel merging.                                         *)
(*                                                                         *)
(* Python values are tagged records [t |-> <type>, v |-> <payload>], so    *)
(* that None, ints, strings, lists and dicts can meet in one variable.     *)
(* Strings that the code inspects (labels, parameter names, enum values)   *)
(* are sequences of one-character strings, so that len(), lower(),         *)
(* upper() and the substring test are computed, not assumed.               *)
(***************************************************************************)
EXTENDS Integers, Sequences, FiniteSets, TLC

VARIABLES
    ctor_calls,      \* descriptor constructor calls still to run: <<[cls, kw]>>
    func_sig,        \* the inspected function: parameters with annotation and default
    func_overrides,  \* overrides passed to fields_from_function
    fields,          \* the list of field descriptors (or the exception raised building it)
    model_cls,       \* the record type returned by build_dynamic_model
    instance,        \* the last model_cls(data) call and its outcome
    schemas_by_id,   \* RecordSchemaRegistry._schemas_by_id
    reg_log,         \* history: the schemas passed to register, in call order
    ret,             \* the last registry call and what it returned or raised
    m_self,          \* BaseModel instance the merge is called on
    m_other,         \* BaseModel instance passed as other
    m_call,          \* the last merged_with / update_from / safe_validate call and its outcome
    publisher,       \* the AMQPublisher / AMQPSimplePublisher object: its class and attributes
    pool_objs,       \* every aio_pika Pool created so far: <<[factory, closed]>>
    pub_call,        \* the last publisher call and its outcome
    pub_fresh,       \* history: initialize not called since construction or the last close
    error_queue,     \* the messages ready in the broker's error queue, head first
    peek_call,       \* the RabbitMQPeeker call running or last run, and its outcome
    redis,           \* the Redis store behind clerk_cache and token_verifier: key -> value
    auth_call,       \* the last production_auth call and its outcome
    sub_config,      \* arguments of register_subscriber_with_retry
    broker_queue,    \* messages waiting in the subscribed queue, head first
    outbox,          \* history: every broker.publish of the retry handler, in order
    handler_call,    \* the last handler_with_retry call and its outcome
    runs,            \* history: how many times the wrapped function was called
    scope,           \* the a_session_scope in progress: where it is, its mode, what was raised
    session,         \* the AsyncSession the scope created: its transaction, how often closed
    db_log           \* history: what happened to the session, in order

fieldVars == <<ctor_calls, func_sig, func_overrides, fields, model_cls, instance>>
registryVars == <<schemas_by_id, reg_log, ret>>
mergeVars == <<m_self, m_other, m_call>>
publisherVars == <<publisher, pool_objs, pub_call, pub_fresh>>
peekVars == <<error_queue, peek_call>>
clerkVars == <<redis, auth_call>>
subscriberVars == <<sub_config, broker_queue, outbox, handler_call, runs>>
scopeVars == <<scope, session, db_log>>
serviceVars == <<publisherVars, peekVars, clerkVars, subscriberVars, scopeVars>>
vars == <<ctor_calls, func_sig, func_overrides, fields, model_cls, instance,
          schemas_by_id, reg_log, ret, m_self, m_other, m_call, serviceVars>>

----------------------------------------------------------------------------
(* Bounds *)

MaxFields == 2       \* longest descriptor list handed to build_dynamic_model
MaxAllowed == 3      \* longest allowed_values list of an EnumField
MaxStrLen == 3       \* longest string value offered to a StrField
MaxNum == 3          \* numeric values and bounds range over 0..MaxNum

----------------------------------------------------------------------------
(* Python values *)

None == [t |-> "None"]
Required == [t |-> "Required"]        \* pydantic's "no default" (Ellipsis / PydanticUndefined)
NotCalled == [t |-> "NotCalled"]      \* the operation has not produced a result yet
IntV(n) == [t |-> "int", v |-> n]
FloatV(n) == [t |-> "float", v |-> n] \* n counts halves: FloatV(3) is 1.5
BoolV(b) == [t |-> "bool", v |-> b]
StrV(s) == [t |-> "str", v |-> s]
ListV(s) == [t |-> "list", v |-> s]
DictV(f) == [t |-> "dict", v |-> f]
Raised(e) == [t |-> "raised", v |-> e]

\* bool(x) for the values the descriptors hold
Truthy(x) ==
    CASE x.t = "None" -> FALSE
      [] x.t = "str" -> Len(x.v) > 0
      [] x.t = "list" -> Len(x.v) > 0
      [] x.t = "int" -> x.v # 0
      [] x.t = "float" -> x.v # 0
      [] x.t = "bool" -> x.v
      [] OTHER -> TRUE

ToLower == ("A" :> "a") @@ ("B" :> "b") @@ ("E" :> "e") @@ ("N" :> "n") @@ ("M" :> "m")
           @@ ("I" :> "i") @@ ("L" :> "l")
ToUpper == ("a" :> "A") @@ ("b" :> "B") @@ ("e" :> "E") @@ ("n" :> "N") @@ ("m" :> "M")
           @@ ("i" :> "I") @@ ("l" :> "L")

\* str.lower() and str.upper(), character by character
lower(s) == [i \in 1..Len(s) |-> IF s[i] \in DOMAIN ToLower THEN ToLower[s[i]] ELSE s[i]]
upper(s) == [i \in 1..Len(s) |-> IF s[i] \in DOMAIN ToUpper THEN ToUpper[s[i]] ELSE s[i]]

\* the Python test  sub in s  on strings
Contains(s, sub) ==
    \E i \in 0..(Len(s) - Len(sub)) : \A j \in 1..Len(sub) : s[i + j] = sub[j]

Max(a, b) == IF a >= b THEN a ELSE b

----------------------------------------------------------------------------
(* Field descriptors: the pydantic models of dynafield/fields *)

EmptyKw == [k \in {} |-> None]

Decl(name, alias, default) == [name |-> name, alias |-> alias, default |-> default]

\* DataTypeFieldBase: label, description, required (id and ref play no part in building)
BaseDecl ==
    <<Decl("label", "label", Required),
      Decl("description", "description", None),
      Decl("required", "required", BoolV(FALSE))>>

\* the fields each descriptor class declares, with their aliases and defaults
Declared(cls) ==
    CASE cls = "StrFieldConstraints" ->
             <<Decl("min_length", "min_length", None), Decl("max_length", "max_length", None)>>
      [] cls = "IntFieldConstraints" ->
             <<Decl("ge_int", "geInt", None), Decl("le_int", "leInt", None)>>
      [] cls = "FloatFieldConstraints" ->
             <<Decl("ge_float", "geFloat", None), Decl("le_float", "leFloat", None)>>
      [] cls = "StrField" ->
             BaseDecl \o <<Decl("default_str", "defaultStr", None),
                           Decl("constraints_str", "constraintsStr", None)>>
      [] cls = "IntField" ->
             BaseDecl \o <<Decl("default_int", "defaultInt", None),
                           Decl("constraints_int", "constraintsInt", None)>>
      [] cls = "FloatField" ->
             BaseDecl \o <<Decl("default_float", "defaultFloat", None),
                           Decl("constraints_float", "constraintsFloat", None)>>
      [] cls = "EnumField" ->
             BaseDecl \o <<Decl("allowed_values", "allowedValues", None),
                           Decl("default_str", "defaultStr", None)>>
      [] cls = "EmailField" -> BaseDecl \o <<Decl("default_email", "defaultEmail", None)>>
      [] cls = "BoolField" -> BaseDecl \o <<Decl("default_bool", "defaultBool", None)>>
      [] cls = "DateField" -> BaseDecl \o <<Decl("default_date", "efaultDate", None)>>
      [] cls = "DateTimeField" ->
             BaseDecl \o <<Decl("default_datetime", "defaultDatetime", None)>>
      [] cls = "UuidField" -> BaseDecl \o <<Decl("default_uuid", "default_uuid", None)>>
      [] cls = "JsonField" -> BaseDecl \o <<Decl("default_dict", "defaultDict", None)>>
      [] cls = "ListField" -> BaseDecl \o <<Decl("default_list", "defaultList", None)>>
      [] cls = "ObjectField" -> BaseDecl \o <<Decl("fields", "fields", Required)>>
      [] OTHER -> BaseDecl   \* DataTypeFieldBase itself

\* cls(kw) under ConfigDict(populate_by_name=True) and pydantic's default
\* extra="ignore": each declared field is taken from its alias or its name,
\* a keyword that matches no declared field is dropped, a declared field
\* without default that is missing raises ValidationError.
Construct(cls, kw) ==
    LET decl == Declared(cls)
        names == {decl[i].name : i \in 1..Len(decl)}
        declOf(n) == CHOOSE f \in {decl[i] : i \in 1..Len(decl)} : f.name = n
        valueOf(f) == IF f.alias \in DOMAIN kw THEN kw[f.alias]
                      ELSE IF f.name \in DOMAIN kw THEN kw[f.name]
                      ELSE f.default
    IN IF \E n \in names : valueOf(declOf(n)) = Required
       THEN Raised("ValidationError")
       ELSE [n \in names \cup {"t", "cls"} |->
                IF n = "t" THEN "model"
                ELSE IF n = "cls" THEN cls
                ELSE valueOf(declOf(n))]

----------------------------------------------------------------------------
(* to_pydantic_field and build_dynamic_model *)

_MISSING == [t |-> "_MISSING"]

\* pydantic.Field(default=..., **field_kwargs)
FieldInfo(default, kw) ==
    [t |-> "FieldInfo",
     default |-> default,
     description |-> IF "description" \in DOMAIN kw THEN kw["description"] ELSE None,
     min_length |-> IF "min_length" \in DOMAIN kw THEN kw["min_length"] ELSE None,
     max_length |-> IF "max_length" \in DOMAIN kw THEN kw["max_length"] ELSE None,
     ge |-> IF "ge" \in DOMAIN kw THEN kw["ge"] ELSE None,
     le |-> IF "le" \in DOMAIN kw THEN kw["le"] ELSE None]

\* field_kwargs[k] = v when cond holds
KwIf(cond, k, v) == IF cond THEN (k :> v) ELSE EmptyKw

\* DataTypeFieldBase._build_field; factory is None or the value the default factory returns
_build_field(d, default, factory, field_kwargs) ==
    LET kw == field_kwargs @@ KwIf(Truthy(d.description), "description", d.description)
    IN IF d.required.v
       THEN IF default \notin {_MISSING, None} \/ factory # None
            THEN Raised("ValueError")
            ELSE FieldInfo(Required, kw)
       ELSE IF factory # None THEN FieldInfo(factory, kw)
       ELSE IF default = _MISSING THEN FieldInfo(Required, kw)
       ELSE FieldInfo(default, kw)

\* dict[key] = val on an insertion-ordered dict kept as a sequence of entries
RECURSIVE DictSet(_, _)
DictSet(entries, e) ==
    IF entries = <<>> THEN <<e>>
    ELSE IF Head(entries).key = e.key THEN <<e>> \o Tail(entries)
    ELSE <<Head(entries)>> \o DictSet(Tail(entries), e)

\* {val.upper(): val for val in allowed_values}
RECURSIVE EnumDict(_)
EnumDict(allowed) ==
    IF allowed = <<>> THEN <<>>
    ELSE LET val == allowed[Len(allowed)]
         IN DictSet(EnumDict(SubSeq(allowed, 1, Len(allowed) - 1)),
                    [key |-> upper(val.v), value |-> val])

PydanticField(key, typ, info) == [t |-> "ok", key |-> key, typ |-> typ, info |-> info]

RECURSIVE to_pydantic_field(_)
RECURSIVE build_dynamic_model(_)

StrField_to_pydantic_field(d) ==
    LET c == d.constraints_str
        kw == KwIf(Truthy(c) /\ c.min_length # None, "min_length", c.min_length)
              @@ KwIf(Truthy(c) /\ c.max_length # None, "max_length", c.max_length)
        info == _build_field(d, d.default_str, None, kw)
    IN IF info.t = "raised" THEN info ELSE PydanticField(d.label.v, [t |-> "str"], info)

IntField_to_pydantic_field(d) ==
    LET c == d.constraints_int
        kw == KwIf(Truthy(c) /\ c.ge_int # None, "ge", c.ge_int)
              @@ KwIf(Truthy(c) /\ c.le_int # None, "le", c.le_int)
        info == _build_field(d, d.default_int, None, kw)
    IN IF info.t = "raised" THEN info ELSE PydanticField(d.label.v, [t |-> "int"], info)

FloatField_to_pydantic_field(d) ==
    LET c == d.constraints_float
        kw == KwIf(Truthy(c) /\ c.ge_float # None, "ge", c.ge_float)
              @@ KwIf(Truthy(c) /\ c.le_float # None, "le", c.le_float)
        info == _build_field(d, d.default_float, None, kw)
    IN IF info.t = "raised" THEN info ELSE PydanticField(d.label.v, [t |-> "float"], info)

\* enum_class(value): the first member carrying that value
EnumMember(members, value) ==
    LET hits == {i \in 1..Len(members) : members[i].value = value}
        i == CHOOSE j \in hits : \A k \in hits : j <= k
    IN [t |-> "enum", name |-> members[i].key, value |-> value]

EnumField_to_pydantic_field(d) ==
    IF ~Truthy(d.allowed_values) THEN Raised("ValueError")
    ELSE LET members == EnumDict(d.allowed_values.v)
             enum_class == [t |-> "enum", members |-> members]
             known == \E i \in 1..Len(members) : members[i].value = d.default_str
             enum_default == IF d.default_str # None
                             THEN EnumMember(members, d.default_str)
                             ELSE None
             info == _build_field(d, enum_default, None, EmptyKw)
         IN IF d.default_str # None /\ ~known THEN Raised("ValueError")
            ELSE IF info.t = "raised" THEN info
            ELSE PydanticField(d.label.v, enum_class, info)

\* the descriptors that call pydantic.Field themselves: key is label.lower(),
\* required is not consulted
LoweredField(d, typ, default, withDescription) ==
    PydanticField(lower(d.label.v), [t |-> typ],
                  FieldInfo(default, KwIf(withDescription /\ Truthy(d.description),
                                          "description", d.description)))

ListField_to_pydantic_field(d) ==
    LET info == IF d.default_list # None
                THEN _build_field(d, _MISSING, d.default_list, EmptyKw)
                ELSE _build_field(d, None, None, EmptyKw)
    IN IF info.t = "raised" THEN info ELSE PydanticField(d.label.v, [t |-> "list"], info)

JsonField_to_pydantic_field(d) ==
    LET info == IF d.default_dict # None
                THEN _build_field(d, _MISSING, d.default_dict, EmptyKw)
                ELSE _build_field(d, None, None, EmptyKw)
    IN IF info.t = "raised" THEN info ELSE PydanticField(d.label.v, [t |-> "dict"], info)

ObjectField_to_pydantic_field(d) ==
    LET nested_model == build_dynamic_model(d.fields.v)
    IN IF nested_model.t = "raised" THEN nested_model
       ELSE PydanticField(lower(d.label.v), [t |-> "model", defs |-> nested_model.defs],
                          FieldInfo(Required, KwIf(Truthy(d.description),
                                                   "description", d.description)))

\* does the descriptor class define to_pydantic_field (hasattr in build_dynamic_model)
HasToPydanticField(d) == d.cls # "DataTypeFieldBase"

to_pydantic_field(d) ==
    CASE d.cls = "StrField" -> StrField_to_pydantic_field(d)
      [] d.cls = "IntField" -> IntField_to_pydantic_field(d)
      [] d.cls = "FloatField" -> FloatField_to_pydantic_field(d)
      [] d.cls = "EnumField" -> EnumField_to_pydantic_field(d)
      [] d.cls = "ListField" -> ListField_to_pydantic_field(d)
      [] d.cls = "JsonField" -> JsonField_to_pydantic_field(d)
      [] d.cls = "ObjectField" -> ObjectField_to_pydantic_field(d)
      [] d.cls = "EmailField" -> LoweredField(d, "email", d.default_email, TRUE)
      [] d.cls = "BoolField" -> LoweredField(d, "bool", d.default_bool, TRUE)
      [] d.cls = "DateField" -> LoweredField(d, "date", d.default_date, FALSE)
      [] d.cls = "DateTimeField" -> LoweredField(d, "datetime", d.default_datetime, TRUE)
      [] d.cls = "UuidField" -> LoweredField(d, "uuid", d.default_uuid, TRUE)

\* build_dynamic_model with field_defs.setdefault(key, ...): the first descriptor
\* of a key would win
RECURSIVE build_dynamic_model_keep_first(_)
build_dynamic_model_keep_first(flds) ==
    IF flds = <<>> THEN [t |-> "model_cls", defs |-> <<>>]
    ELSE LET before == build_dynamic_model_keep_first(SubSeq(flds, 1, Len(flds) - 1))
             field == flds[Len(flds)]
         IN IF before.t = "raised" THEN before
            ELSE IF ~HasToPydanticField(field) THEN before
            ELSE LET f == to_pydantic_field(field)
                 IN IF f.t = "raised" THEN f
                    ELSE IF \E i \in 1..Len(before.defs) : before.defs[i].key = f.key
                    THEN before
                    ELSE [t |-> "model_cls",
                          defs |-> before.defs
                                   \o <<[key |-> f.key, typ |-> f.typ, info |-> f.info]>>]

\* build_dynamic_model(name, fields): field_defs is filled in list order, a
\* later descriptor with the same key replaces the earlier definition, and
\* create_model makes one field per entry. An exception of to_pydantic_field
\* leaves the function.
build_dynamic_model(flds) ==
    IF flds = <<>> THEN [t |-> "model_cls", defs |-> <<>>]
    ELSE LET before == build_dynamic_model(SubSeq(flds, 1, Len(flds) - 1))
             field == flds[Len(flds)]
         IN IF before.t = "raised" THEN before
            ELSE IF ~HasToPydanticField(field) THEN before
            ELSE LET f == to_pydantic_field(field)
                 IN IF f.t = "raised" THEN f
                    ELSE [t |-> "model_cls",
                          defs |-> DictSet(before.defs,
                                           [key |-> f.key, typ |-> f.typ, info |-> f.info])]


----------------------------------------------------------------------------
(* Record types and their instantiation *)

\* EmailStr: one "@" with something on both sides
IsEmail(s) ==
    /\ Cardinality({i \in 1..Len(s) : s[i] = "@"}) = 1
    /\ Len(s) >= 3 /\ s[1] # "@" /\ s[Len(s)] # "@"

ValidationError == Raised("ValidationError")

\* number of halves a numeric value stands for (int 1 is float 1.0)
Halves(x) == IF x.t = "int" THEN 2 * x.v ELSE x.v

RECURSIVE Instantiate(_, _)

\* pydantic validating one supplied value against (typ, Field(...))
Validate(typ, info, x) ==
    CASE typ.t = "str" ->
             IF /\ x.t = "str"
                /\ (info.min_length = None \/ Len(x.v) >= info.min_length.v)
                /\ (info.max_length = None \/ Len(x.v) <= info.max_length.v)
             THEN x ELSE ValidationError
      [] typ.t = "int" ->
             IF /\ x.t = "int"
                /\ (info.ge = None \/ x.v >= info.ge.v)
                /\ (info.le = None \/ x.v <= info.le.v)
             THEN x ELSE ValidationError
      [] typ.t = "float" ->
             IF /\ x.t \in {"float", "int"}
                /\ (info.ge = None \/ Halves(x) >= Halves(info.ge))
                /\ (info.le = None \/ Halves(x) <= Halves(info.le))
             THEN FloatV(Halves(x)) ELSE ValidationError
      [] typ.t = "enum" ->
             IF \E i \in 1..Len(typ.members) : typ.members[i].value = x
             THEN EnumMember(typ.members, x) ELSE ValidationError
      [] typ.t = "email" ->
             IF x.t = "str" /\ IsEmail(x.v) THEN x ELSE ValidationError
      [] typ.t = "model" ->
             IF x.t = "dict" THEN Instantiate(typ.defs, x.v) ELSE ValidationError
      [] OTHER ->   \* bool, date, datetime, uuid, dict, list
             IF x.t = typ.t THEN x ELSE ValidationError

KeysOf(defs) == {defs[i].key : i \in 1..Len(defs)}
DefOf(defs, k) == CHOOSE e \in {defs[i] : i \in 1..Len(defs)} : e.key = k

\* model_cls(data): supplied fields are validated, a missing field takes its
\* default unvalidated or fails when it has none, unknown keys are ignored
Instantiate(defs, data) ==
    LET val(k) == IF k \in DOMAIN data
                  THEN Validate(DefOf(defs, k).typ, DefOf(defs, k).info, data[k])
                  ELSE IF DefOf(defs, k).info.default = Required THEN ValidationError
                  ELSE DefOf(defs, k).info.default
    IN IF \E k \in KeysOf(defs) : val(k) = ValidationError
       THEN ValidationError
       ELSE [t |-> "instance",
             values |-> [k \in KeysOf(defs) |-> val(k)],
             fields_set |-> KeysOf(defs) \cap DOMAIN data]

----------------------------------------------------------------------------
(* Inputs offered to the record types *)

\* the strings "", "a", "aa", ... up to n characters
RECURSIVE Rep(_, _)
Rep(c, n) == IF n = 0 THEN <<>> ELSE <<c>> \o Rep(c, n - 1)

EnumValues == {StrV(<<"a">>), StrV(<<"A">>), StrV(<<"b">>)}

SampleValues(typ) ==
    CASE typ.t = "str" -> {StrV(Rep("a", n)) : n \in 0..(MaxStrLen + 1)} \cup {IntV(1)}
      [] typ.t = "int" -> {IntV(n) : n \in -1..(MaxNum + 1)} \cup {StrV(<<"a">>)}
      [] typ.t = "float" -> {FloatV(n) : n \in -1..(2 * MaxNum + 1)} \cup {StrV(<<"a">>)}
      [] typ.t = "enum" -> EnumValues \cup {StrV(<<"c">>), None}
      [] typ.t = "email" -> {StrV(<<"a", "@", "b">>), StrV(<<"a">>)}
      [] typ.t = "model" -> {DictV(EmptyKw), DictV(<<"a">> :> StrV(<<"a">>)), None}
      [] OTHER -> {[t |-> typ.t, v |-> 1], None}

\* a value of the field's type, used for the fields a call is not about
Baseline(typ) ==
    CASE typ.t = "str" -> StrV(<<"a">>)
      [] typ.t = "int" -> IntV(1)
      [] typ.t = "float" -> FloatV(2)
      [] typ.t = "enum" -> typ.members[1].value
      [] typ.t = "email" -> StrV(<<"a", "@", "b">>)
      [] typ.t = "model" -> DictV(<<"a">> :> StrV(<<"a">>))
      [] OTHER -> [t |-> typ.t, v |-> 1]

\* the keyword dicts offered to a record type: one field gets each of its
\* sample values while the others are all omitted or all given a baseline
\* value; with and without a key the record type does not know
DataFor(defs) ==
    LET keys == KeysOf(defs)
        others(k0, given) == [k \in (IF given THEN keys \ {k0} ELSE {}) |->
                                  Baseline(DefOf(defs, k).typ)]
        about(k0) == {(k0 :> x) @@ others(k0, given) :
                          x \in SampleValues(DefOf(defs, k0).typ), given \in BOOLEAN}
        known == {EmptyKw} \cup UNION {about(k0) : k0 \in keys}
    IN known \cup {f @@ (<<"z">> :> IntV(1)) : f \in known}

----------------------------------------------------------------------------
(* Operations on descriptors and record types *)

\* run the pending constructor calls, in order; the first one that raises ends it
ConstructFields ==
    /\ ctor_calls # <<>>
    /\ fields = NotCalled
    /\ LET built == [i \in 1..Len(ctor_calls) |->
                        Construct(ctor_calls[i].cls, ctor_calls[i].kw)]
       IN fields' = IF \E i \in 1..Len(built) : built[i].t = "raised"
                    THEN ValidationError
                    ELSE ListV(built)
    /\ UNCHANGED <<ctor_calls, func_sig, func_overrides, model_cls, instance>>
    /\ UNCHANGED registryVars
    /\ UNCHANGED mergeVars
    /\ UNCHANGED serviceVars

BuildDynamicModel ==
    /\ fields.t = "list"
    /\ model_cls = NotCalled
    /\ model_cls' = build_dynamic_model(fields.v)
    /\ UNCHANGED <<ctor_calls, func_sig, func_overrides, fields, instance>>
    /\ UNCHANGED registryVars
    /\ UNCHANGED mergeVars
    /\ UNCHANGED serviceVars

\* model_cls(data), once per behaviour: a record type keeps no state between
\* calls, so a second call reaches nothing the first call of another behaviour
\* does not
InstantiateModel ==
    /\ model_cls.t = "model_cls"
    /\ instance = NotCalled
    /\ \E data \in DataFor(model_cls.defs) :
           instance' = [t |-> "call", data |-> data,
                        result |-> Instantiate(model_cls.defs, data)]
    /\ UNCHANGED <<ctor_calls, func_sig, func_overrides, fields, model_cls>>
    /\ UNCHANGED registryVars
    /\ UNCHANGED mergeVars
    /\ UNCHANGED serviceVars

NextFields == ConstructFields \/ BuildDynamicModel \/ InstantiateModel

\* the variables of the parts that are not running
IdleFunc == func_sig = <<>> /\ func_overrides = EmptyKw
IdleRegistry == schemas_by_id = EmptyKw /\ reg_log = <<>> /\ ret = NotCalled
IdleMerge == m_self = None /\ m_other = None /\ m_call = NotCalled
IdlePublisher == publisher = None /\ pool_objs = <<>> /\ pub_call = NotCalled /\ pub_fresh = TRUE
IdlePeek == error_queue = <<>> /\ peek_call = NotCalled
IdleClerk == redis = EmptyKw /\ auth_call = NotCalled
IdleSubscriber ==
    /\ sub_config = None /\ broker_queue = <<>> /\ outbox = <<>>
    /\ handler_call = NotCalled /\ runs = 0
IdleScope == scope = None /\ session = None /\ db_log = <<>>
IdleService == IdlePublisher /\ IdlePeek /\ IdleClerk /\ IdleSubscriber /\ IdleScope

\* all lists of 1..n elements of S
ListsOf(S, n) == UNION {[1..k -> S] : k \in 1..n}

Call(cls, kw) == [cls |-> cls, kw |-> kw]

----------------------------------------------------------------------------
(* build_dynamic_model over mixed descriptor lists *)

BuildLabels == {StrV(<<"I", "d">>), StrV(<<"i", "d">>)}

BuildCtorPool ==
    UNION {{Call("StrField", [label |-> l]),
            Call("EmailField", [label |-> l]),
            Call("EnumField", [label |-> l, allowed_values |-> ListV(<<StrV(<<"a">>)>>)]),
            Call("ObjectField",
                 [label |-> l,
                  fields |-> ListV(<<Construct("StrField", [label |-> StrV(<<"a">>)])>>)])}
           : l \in BuildLabels}
    \cup {Call("EnumField", [label |-> StrV(<<"i", "d">>)]),
          Call("DataTypeFieldBase", [label |-> StrV(<<"i", "d">>)]),
          Call("BoolField", [label |-> StrV(<<"I", "d">>), description |-> StrV(<<"d">>)]),
          Call("StrField", [label |-> StrV(<<"i", "d">>), required |-> BoolV(TRUE),
                            default_str |-> StrV(<<"a">>)])}

InitBuild ==
    /\ ctor_calls \in ListsOf(BuildCtorPool, MaxFields)
    /\ fields = NotCalled
    /\ model_cls = NotCalled
    /\ instance = NotCalled
    /\ IdleFunc /\ IdleRegistry /\ IdleMerge /\ IdleService

SpecBuild == InitBuild /\ [][NextFields]_vars

\* the descriptors of the list that define to_pydantic_field
Producers == {i \in 1..Len(fields.v) : HasToPydanticField(fields.v[i])}

\* C1: the record type returned by build_dynamic_model has exactly the keys
\* that the descriptors' to_pydantic_field produce, each once, and the
\* definition under a key is the one produced by the last descriptor with it.
C1_ModelFieldsAreProducedKeys ==
    model_cls.t = "model_cls" =>
        LET defs == model_cls.defs
            f(i) == to_pydantic_field(fields.v[i])
        IN /\ KeysOf(defs) = {f(i).key : i \in Producers}
           /\ Cardinality(KeysOf(defs)) = Len(defs)
           /\ \A i \in Producers :
                  (\A j \in Producers : j > i => f(j).key # f(i).key)
                  => /\ DefOf(defs, f(i).key).typ = f(i).typ
                     /\ DefOf(defs, f(i).key).info = f(i).info

\* two descriptors with different labels and types produced the same key and
\* a record type was built
C1_Witness ==
    /\ model_cls.t = "model_cls"
    /\ \E i, j \in Producers :
           /\ i < j
           /\ fields.v[i].label # fields.v[j].label
           /\ to_pydantic_field(fields.v[i]).key = to_pydantic_field(fields.v[j]).key
           /\ to_pydantic_field(fields.v[i]).typ # to_pydantic_field(fields.v[j]).typ

----------------------------------------------------------------------------
(* EnumField record types *)

\* an EnumField built from every allowed_values list over EnumValues
InitEnum ==
    /\ \E av \in {<<>>} \cup ListsOf(EnumValues, MaxAllowed) :
       \E extra \in {EmptyKw} \cup {[default_str |-> x] : x \in EnumValues} :
           ctor_calls = <<Call("EnumField",
                               [label |-> StrV(<<"a">>), allowed_values |-> ListV(av)]
                               @@ extra)>>
    /\ fields = NotCalled
    /\ model_cls = NotCalled
    /\ instance = NotCalled
    /\ IdleFunc /\ IdleRegistry /\ IdleMerge /\ IdleService

SpecEnum == InitEnum /\ [][NextFields]_vars

\* the elements of a Python list value
Elements(l) == {l.v[i] : i \in 1..Len(l.v)}

\* the single descriptor of the list and the key it contributes
OnlyField == fields.v[1]
OnlyKey == model_cls.defs[1].key

\* a record type was built from one descriptor and a value was offered for its field
OfferedTo(cls) ==
    /\ fields.t = "list" /\ Len(fields.v) = 1 /\ OnlyField.cls = cls
    /\ model_cls.t = "model_cls"
    /\ instance.t = "call"
    /\ OnlyKey \in DOMAIN instance.data

\* C3: a record type built from an EnumField accepts a value for the field if
\* and only if the value is one of the descriptor's allowed_values.
C3_EnumAcceptsExactlyAllowed ==
    OfferedTo("EnumField") =>
        (instance.result.t = "instance"
         <=> instance.data[OnlyKey] \in Elements(OnlyField.allowed_values))

----------------------------------------------------------------------------
(* Length and range constraints of StrField, IntField and FloatField *)

OptBound(kind) == {None} \cup {[t |-> kind, v |-> n] : n \in 0..MaxNum}

\* the constraint keywords given directly to the descriptor, as the tests do,
\* or through the constraints model the descriptor declares
BoundCalls(cls, ccls, cfield, loName, hiName, kind) ==
    UNION {{Call(cls, [label |-> StrV(<<"a">>)]
                      @@ KwIf(lo # None, loName, lo) @@ KwIf(hi # None, hiName, hi)),
            Call(cls, [label |-> StrV(<<"a">>)]
                      @@ (cfield :> Construct(ccls, KwIf(lo # None, loName, lo)
                                                    @@ KwIf(hi # None, hiName, hi))))}
           : lo \in OptBound(kind), hi \in OptBound(kind)}

InitBounds ==
    /\ \E c \in BoundCalls("StrField", "StrFieldConstraints", "constraints_str",
                           "min_length", "max_length", "int")
             \cup BoundCalls("IntField", "IntFieldConstraints", "constraints_int",
                             "ge_int", "le_int", "int")
             \cup BoundCalls("FloatField", "FloatFieldConstraints", "constraints_float",
                             "ge_float", "le_float", "float") :
           ctor_calls = <<c>>
    /\ fields = NotCalled
    /\ model_cls = NotCalled
    /\ instance = NotCalled
    /\ IdleFunc /\ IdleRegistry /\ IdleMerge /\ IdleService

SpecBounds == InitBounds /\ [][NextFields]_vars

\* the keyword the constructor call carried, directly or inside its constraints model
GivenBound(call, cfield, name) ==
    IF name \in DOMAIN call.kw THEN call.kw[name]
    ELSE IF cfield \in DOMAIN call.kw THEN call.kw[cfield][name]
    ELSE None

\* x lies within the optional bounds lo and hi
Within(x, lo, hi) == (lo = None \/ x >= lo.v) /\ (hi = None \/ x <= hi.v)

\* C4: a StrField constructed with min_length/max_length, an IntField with
\* ge_int/le_int or a FloatField with ge_float/le_float yields a record type
\* that accepts a string or number exactly when it lies within those bounds.
C4_BoundsAreEnforced ==
    LET call == ctor_calls[1]
        x == instance.data[OnlyKey]
    IN /\ (OfferedTo("StrField") /\ x.t = "str") =>
              (instance.result.t = "instance"
               <=> Within(Len(x.v), GivenBound(call, "constraints_str", "min_length"),
                          GivenBound(call, "constraints_str", "max_length")))
       /\ (OfferedTo("IntField") /\ x.t = "int") =>
              (instance.result.t = "instance"
               <=> Within(x.v, GivenBound(call, "constraints_int", "ge_int"),
                          GivenBound(call, "constraints_int", "le_int")))
       /\ (OfferedTo("FloatField") /\ x.t = "float") =>
              (instance.result.t = "instance"
               <=> Within(x.v, GivenBound(call, "constraints_float", "ge_float"),
                          GivenBound(call, "constraints_float", "le_float")))

\* the same, for the descriptors that received their bounds in a constraints model
C4_NestedBoundsAreEnforced ==
    (\E f \in {"constraints_str", "constraints_int", "constraints_float"} :
         f \in DOMAIN ctor_calls[1].kw)
    => C4_BoundsAreEnforced

----------------------------------------------------------------------------
(* from_func: descriptors inferred from a function signature *)

Empty == [t |-> "inspect._empty"]     \* a parameter without default
NoAttr == [t |-> "NoAttr"]            \* the object has no __annotations__ attribute

\* An annotation: origin is what typing.get_origin returns ("None" for a plain
\* class), args what get_args returns, cls the class itself, annotations the
\* value of its __annotations__ attribute (a list of <<name, annotation>>
\* entries) or NoAttr.
Ann(origin, cls, args, annotations) ==
    [t |-> "ann", origin |-> origin, cls |-> cls, args |-> args,
     annotations |-> annotations]

\* builtin classes carry no __annotations__
Builtin(cls) == Ann("None", cls, <<>>, NoAttr)
NoneType == Builtin("NoneType")
A_str == Builtin("str")
A_int == Builtin("int")
A_float == Builtin("float")
A_bool == Builtin("bool")
A_date == Builtin("date")
A_datetime == Builtin("datetime")
A_dict == Builtin("dict")
\* uuid.UUID is written in Python, so it carries __annotations__ like any class
A_UUID == Ann("None", "UUID", <<>>, ListV(<<>>))
A_Literal == Ann("Literal", "Literal", <<StrV(<<"a">>), StrV(<<"b">>)>>, NoAttr)
A_list == Ann("list", "list", <<A_int>>, NoAttr)
A_typed_dict == Ann("dict", "dict", <<A_str, A_int>>, NoAttr)
\* class Profile with annotated attributes first: str and last: str
A_Profile == Ann("None", "Profile", <<>>,
                 ListV(<<[name |-> <<"a">>, ann |-> A_str],
                         [name |-> <<"b">>, ann |-> A_str]>>))
\* class Weird: pass -- a class statement without annotated attributes; from
\* Python 3.10 on its __annotations__ attribute is an empty dict
A_Weird == Ann("None", "Weird", <<>>, ListV(<<>>))
Optional(a) == Ann("Union", "Union", <<a, NoneType>>, NoAttr)
A_Union3 == Ann("Union", "Union", <<A_int, A_str, NoneType>>, NoAttr)

_unwrap_optional(tp) ==
    IF /\ tp.origin = "Union"
       /\ \E i \in 1..Len(tp.args) : tp.args[i] = NoneType
       /\ Len(tp.args) = 2
    THEN tp.args[CHOOSE i \in 1..2 : tp.args[i] # NoneType]
    ELSE tp

_is_literal(tp) == tp.origin = "Literal"
_is_typed_list(tp) == tp.origin = "list"
_is_typed_mapping(tp) == tp.origin = "dict"
\* hasattr(tp, "__annotations__") and it is a dict
_is_object_like(tp) == tp.annotations # NoAttr

\* the default_* keyword, present when the parameter has a default
DefaultKw(k, default) == KwIf(default # Empty, k, default)

RECURSIVE _fields_from_annotations(_, _)

\* _choose_field_for(name, ann)(default): the descriptor class and its keywords
_choose_field_for(name, annotation, default) ==
    LET ann == _unwrap_optional(annotation)
        plain(c) == ann.origin = "None" /\ ann.cls = c
    IN CASE _is_literal(ann) ->
                Call("EnumField", [allowed_values |-> ListV(ann.args)]
                                  @@ DefaultKw("default_str", default))
         [] _is_typed_list(ann) -> Call("ListField", DefaultKw("default_list", default))
         [] _is_typed_mapping(ann) -> Call("JsonField", DefaultKw("default_dict", default))
         [] plain("UUID") -> Call("UuidField", DefaultKw("default_uuid", default))
         [] plain("date") -> Call("DateField", DefaultKw("default_date", default))
         [] plain("datetime") ->
                Call("DateTimeField", DefaultKw("default_datetime", default))
         [] plain("bool") -> Call("BoolField", DefaultKw("default_bool", default))
         [] plain("int") -> Call("IntField", DefaultKw("default_int", default))
         [] plain("float") -> Call("FloatField", DefaultKw("default_float", default))
         [] _is_object_like(ann) ->
                Call("ObjectField",
                     [fields |-> _fields_from_annotations(
                                     [i \in 1..Len(ann.annotations.v) |->
                                         [name |-> ann.annotations.v[i].name,
                                          ann |-> ann.annotations.v[i].ann,
                                          default |-> Empty]],
                                     EmptyKw)])
         [] plain("str") ->
                IF Contains(lower(name), <<"e", "m", "a", "i", "l">>)
                THEN Call("EmailField", DefaultKw("default_email", default))
                ELSE Call("StrField", DefaultKw("default_str", default))
         [] OTHER ->
                Call("JsonField",
                     DefaultKw("default_dict",
                               IF default.t = "dict" THEN default
                               ELSE DictV(<<"value">> :> default)))

\* _fields_from_annotations: params carries each name with its annotation and
\* its default (Empty when defaults has no entry); answers the list of
\* descriptors, or the exception a descriptor constructor raised
_fields_from_annotations(params, overrides) ==
    IF params = <<>> THEN ListV(<<>>)
    ELSE LET before == _fields_from_annotations(SubSeq(params, 1, Len(params) - 1),
                                                overrides)
             p == params[Len(params)]
             ov == IF p.name \in DOMAIN overrides THEN overrides[p.name] ELSE EmptyKw
             field_instance == IF "field" \in DOMAIN ov THEN ov["field"] ELSE None
             chosen == _choose_field_for(p.name, p.ann, p.default)
             merged == [k \in DOMAIN ov \ {"field"} |-> ov[k]] @@ chosen.kw
             made == Construct(chosen.cls, [label |-> StrV(p.name)] @@ merged)
         IN IF before.t = "raised" THEN before
            ELSE IF field_instance # None THEN ListV(before.v \o <<field_instance>>)
            ELSE IF chosen.cls = "ObjectField" /\ chosen.kw.fields.t = "raised"
            THEN chosen.kw.fields
            ELSE IF made.t = "raised" THEN made
            ELSE ListV(before.v \o <<made>>)

N_self == <<"s", "e", "l", "f">>

\* fields_from_function(func, overrides): every parameter but self
fields_from_function(sig, overrides) ==
    _fields_from_annotations(SelectSeq(sig, LAMBDA p : p.name # N_self), overrides)

\* build_model_from_function(func, overrides=overrides)
build_model_from_function(sig, overrides) ==
    LET flds == fields_from_function(sig, overrides)
    IN IF flds.t = "raised" THEN flds ELSE build_dynamic_model(flds.v)

FieldsFromFunction ==
    /\ func_sig # <<>>
    /\ fields = NotCalled
    /\ fields' = fields_from_function(func_sig, func_overrides)
    /\ UNCHANGED <<ctor_calls, func_sig, func_overrides, model_cls, instance>>
    /\ UNCHANGED registryVars
    /\ UNCHANGED mergeVars
    /\ UNCHANGED serviceVars

BuildModelFromFunction ==
    /\ func_sig # <<>>
    /\ model_cls = NotCalled
    /\ model_cls' = build_model_from_function(func_sig, func_overrides)
    /\ UNCHANGED <<ctor_calls, func_sig, func_overrides, fields, instance>>
    /\ UNCHANGED registryVars
    /\ UNCHANGED mergeVars
    /\ UNCHANGED serviceVars

NextFunc == FieldsFromFunction \/ BuildModelFromFunction \/ InstantiateModel

----------------------------------------------------------------------------
(* fields_from_function over signatures *)

MaxParams == 2       \* most parameters of an inspected function

N_n == <<"n">>
N_email == <<"e", "m", "a", "i", "l">>
N_EMail == <<"E", "M", "a", "i", "l">>
N_mail == <<"m", "a", "i", "l">>

Param(name, ann, default) == [name |-> name, ann |-> ann, default |-> default]

Annotations ==
    {A_Literal, Optional(A_Literal), A_list, A_typed_dict, A_UUID, A_date, A_datetime,
     A_bool, A_int, Optional(A_int), A_float, A_Profile, A_str, Optional(A_str),
     A_Weird, A_dict, A_Union3}

ParamPool ==
    {Param(N_n, a, Empty) : a \in Annotations}
    \cup {Param(nm, a, Empty) : nm \in {N_email, N_EMail, N_mail},
                                a \in {A_str, Optional(A_str), A_int}}
    \cup {Param(N_self, A_Weird, Empty),
          Param(N_n, A_int, IntV(1)),
          Param(N_n, A_Literal, StrV(<<"a">>)),
          Param(N_n, A_Union3, IntV(1)),
          Param(N_mail, A_str, StrV(<<"a">>))}

\* Python rejects a def with two parameters of the same name
Signatures ==
    {sig \in ListsOf(ParamPool, MaxParams) :
         \A i, j \in 1..Len(sig) : i # j => sig[i].name # sig[j].name}

InitFunc ==
    /\ func_sig \in Signatures
    /\ func_overrides = EmptyKw
    /\ ctor_calls = <<>>
    /\ fields = NotCalled
    /\ model_cls = NotCalled
    /\ instance = NotCalled
    /\ IdleRegistry /\ IdleMerge /\ IdleService

SpecFunc == InitFunc /\ [][NextFunc]_vars

\* the annotation with a  T | None  wrapper removed
WithoutOptional(a) ==
    IF a.origin = "Union" /\ Len(a.args) = 2 /\ a.args[2] = NoneType THEN a.args[1]
    ELSE IF a.origin = "Union" /\ Len(a.args) = 2 /\ a.args[1] = NoneType THEN a.args[2]
    ELSE a

\* the class declares at least one annotated attribute
CarriesAnnotations(a) == a.annotations # NoAttr /\ a.annotations.v # <<>>

\* the descriptor kind the claim assigns to a parameter
ClaimedKind(name, annotation) ==
    LET a == WithoutOptional(annotation)
    IN CASE a.origin = "Literal" -> "EnumField"
         [] a.origin = "list" -> "ListField"
         [] a.origin = "dict" -> "JsonField"
         [] a.origin = "None" /\ a.cls = "UUID" -> "UuidField"
         [] a.origin = "None" /\ a.cls = "date" -> "DateField"
         [] a.origin = "None" /\ a.cls = "datetime" -> "DateTimeField"
         [] a.origin = "None" /\ a.cls = "bool" -> "BoolField"
         [] a.origin = "None" /\ a.cls = "int" -> "IntField"
         [] a.origin = "None" /\ a.cls = "float" -> "FloatField"
         [] a.origin = "None" /\ a.cls = "str" ->
                IF Contains(lower(name), N_email) THEN "EmailField" ELSE "StrField"
         [] a.origin = "None" /\ CarriesAnnotations(a) -> "ObjectField"
         [] OTHER -> "JsonField"

\* the parameters fields_from_function looks at
InspectedParams == SelectSeq(func_sig, LAMBDA p : p.name # N_self)

\* C2: fields_from_function(func) returns one descriptor per parameter other
\* than self, in parameter order, labelled with the parameter name, of the
\* kind the annotation selects once an Optional wrapper is removed; an enum
\* descriptor carries the literal values as allowed values.
C2_InferredKinds ==
    (fields # NotCalled /\ func_sig # <<>> /\ func_overrides = EmptyKw) =>
        /\ fields.t = "list"
        /\ Len(fields.v) = Len(InspectedParams)
        /\ \A i \in 1..Len(InspectedParams) :
               LET p == InspectedParams[i]
                   d == fields.v[i]
               IN /\ d.label = StrV(p.name)
                  /\ d.cls = ClaimedKind(p.name, p.ann)
                  /\ d.cls = "EnumField" =>
                         d.allowed_values = ListV(WithoutOptional(p.ann).args)

\* C2 restricted to parameters whose annotation is not a class without
\* annotated attributes (supporting check: the rest of the table is what the code does)
C2_InferredKindsButBareClasses ==
    (\A i \in 1..Len(func_sig) : WithoutOptional(func_sig[i].ann) # A_Weird)
    => C2_InferredKinds

----------------------------------------------------------------------------
(* fields_from_function with overrides *)

OverrideSignatures ==
    {<<Param(N_n, A_str, Empty)>>,
     <<Param(N_n, A_int, Empty)>>,
     <<Param(N_n, A_float, Empty)>>,
     <<Param(N_n, A_date, Empty)>>,
     <<Param(N_n, A_dict, Empty), Param(N_email, A_str, Empty)>>,
     <<Param(N_n, A_str, StrV(<<"a">>)), Param(N_mail, A_int, Empty)>>}

OverrideEntries ==
    {[min_length |-> IntV(2)],
     [min_length |-> IntV(1), max_length |-> IntV(2), description |-> StrV(<<"d">>)],
     [ge_int |-> IntV(1), le_int |-> IntV(2)],
     [ge_float |-> FloatV(1), le_float |-> FloatV(2)],
     [description |-> StrV(<<"d">>)],
     [default_str |-> StrV(<<"a", "a">>)],
     [constraints_str |-> Construct("StrFieldConstraints", [min_length |-> IntV(2)])],
     [field |-> Construct("StrField", [label |-> StrV(<<"b">>)])],
     [field |-> Construct("ObjectField",
                          [label |-> StrV(N_n),
                           fields |-> ListV(<<Construct("StrField",
                                                        [label |-> StrV(<<"a">>)])>>)])]}

InitOverrides ==
    /\ func_sig \in OverrideSignatures
    /\ \E K \in SUBSET {N_n, N_mail} : func_overrides \in [K -> OverrideEntries]
    /\ ctor_calls = <<>>
    /\ fields = NotCalled
    /\ model_cls = NotCalled
    /\ instance = NotCalled
    /\ IdleRegistry /\ IdleMerge /\ IdleService

SpecOverrides == InitOverrides /\ [][NextFunc]_vars

DeclaredNames(cls) == {Declared(cls)[i].name : i \in 1..Len(Declared(cls))}

\* the override entry given for the i-th inspected parameter
OverrideOf(i) ==
    IF InspectedParams[i].name \in DOMAIN func_overrides
    THEN func_overrides[InspectedParams[i].name]
    ELSE EmptyKw

\* the first two parts of C5: a 'field' entry is used as it is, and every other
\* override keyword that names a field of the inferred descriptor sets it
C5_OverridesReachDescriptor ==
    fields.t = "list" =>
        \A i \in 1..Len(InspectedParams) :
            LET ov == OverrideOf(i)
                d == fields.v[i]
            IN IF "field" \in DOMAIN ov THEN d = ov["field"]
               ELSE \A k \in DOMAIN ov \cap DeclaredNames(d.cls) : d[k] = ov[k]

\* the record type's definition of the field that descriptor d contributes
BuiltInfo(d) == DefOf(model_cls.defs, to_pydantic_field(d).key).info

\* C5: an override entry with the key 'field' puts the given descriptor in
\* place of the inferred one; any other entry replaces the inferred keywords
\* of the same name, so that the overridden constraints and description take
\* effect in the built record type.
C5_OverridesTakeEffect ==
    (fields.t = "list" /\ model_cls.t = "model_cls") =>
        /\ C5_OverridesReachDescriptor
        /\ \A i \in 1..Len(InspectedParams) :
               LET ov == OverrideOf(i)
                   d == fields.v[i]
                   info == BuiltInfo(d)
                   effective(cls, k, got) ==
                       (d.cls = cls /\ k \in DOMAIN ov) => got = ov[k]
               IN "field" \notin DOMAIN ov =>
                      /\ effective("StrField", "min_length", info.min_length)
                      /\ effective("StrField", "max_length", info.max_length)
                      /\ effective("IntField", "ge_int", info.ge)
                      /\ effective("IntField", "le_int", info.le)
                      /\ effective("FloatField", "ge_float", info.ge)
                      /\ effective("FloatField", "le_float", info.le)
                      /\ effective(d.cls, "description", info.description)

----------------------------------------------------------------------------
(* RecordSchemaDefinition and RecordSchemaRegistry *)

MaxRegs == 3         \* most register calls in one behaviour, constructor included
MaxRecords == 2      \* longest stored_records / updates list

K_c == <<"c">>       \* field customer_name
K_p == <<"p">>       \* field party_size

\* a RecordSchemaDefinition; obj tells apart distinct objects with equal content
Schema(id, obj, field_definitions) ==
    [t |-> "model", cls |-> "RecordSchemaDefinition", id |-> id, obj |-> obj,
     field_definitions |-> field_definitions]

SchemaPool ==
    {Schema(1, 1, ListV(<<Construct("StrField", [label |-> StrV(K_c)]),
                          Construct("IntField", [label |-> StrV(K_p)])>>)),
     Schema(1, 2, ListV(<<Construct("StrField", [label |-> StrV(K_c)])>>)),
     Schema(2, 3, None),
     Schema(2, 4, ListV(<<Construct("StrField", [label |-> StrV(K_c),
                                                 required |-> BoolV(TRUE)]),
                          Construct("IntField", [label |-> StrV(K_p),
                                                 default_int |-> IntV(1)])>>))}

SchemaIds == {1, 2, 3}

\* RecordSchemaDefinition.build_record_model
build_record_model(schema) ==
    IF ~Truthy(schema.field_definitions) THEN Raised("ValueError")
    ELSE build_dynamic_model(schema.field_definitions.v)

\* register with setdefault: an id once taken would keep its first schema
register_keep_first(registry, schema) ==
    IF schema.id \in DOMAIN registry THEN registry
    ELSE (schema.id :> schema) @@ registry

\* RecordSchemaRegistry.register: self._schemas_by_id[schema.id] = schema
register(registry, schema) == (schema.id :> schema) @@ registry

\* RecordSchemaRegistry.__init__(schemas): register each in turn
RECURSIVE RegistryOf(_)
RegistryOf(schemas) ==
    IF schemas = <<>> THEN EmptyKw
    ELSE register(RegistryOf(SubSeq(schemas, 1, Len(schemas) - 1)), schemas[Len(schemas)])

\* RecordSchemaRegistry.get
get(registry, schema_id) ==
    IF schema_id \in DOMAIN registry THEN registry[schema_id] ELSE Raised("KeyError")

\* RecordSchemaRegistry.build_model
build_model(registry, schema_id) ==
    LET schema == get(registry, schema_id)
    IN IF schema.t = "raised" THEN schema ELSE build_record_model(schema)

\* the list [model_cls(d) for d in dicts], or the first exception
RECURSIVE TypedRecords(_, _)
TypedRecords(defs, dicts) ==
    IF dicts = <<>> THEN ListV(<<>>)
    ELSE LET before == TypedRecords(defs, SubSeq(dicts, 1, Len(dicts) - 1))
             rec == Instantiate(defs, dicts[Len(dicts)])
         IN IF before.t = "raised" THEN before
            ELSE IF rec.t = "raised" THEN rec
            ELSE ListV(before.v \o <<rec>>)

\* mutate_records whose merge lets the stored record win over the update
mutate_records_stored_wins(registry, schema_id, stored_records, updates) ==
    LET model == build_model(registry, schema_id)
        merged(index) == IF index <= Len(updates)
                         THEN stored_records[index] @@ updates[index]
                         ELSE stored_records[index]
    IN IF model.t = "raised" THEN model
       ELSE TypedRecords(model.defs,
                         [i \in 1..Len(stored_records) |-> merged(i)]
                         \o SubSeq(updates, Len(stored_records) + 1, Len(updates)))

\* RecordSchemaRegistry.mutate_records: merged = record.copy(); merged |= updates[index]
\* for the stored records, then one record per update beyond them
mutate_records(registry, schema_id, stored_records, updates) ==
    LET model == build_model(registry, schema_id)
        merged(index) == IF index <= Len(updates)
                         THEN updates[index] @@ stored_records[index]
                         ELSE stored_records[index]
    IN IF model.t = "raised" THEN model
       ELSE TypedRecords(model.defs,
                         [i \in 1..Len(stored_records) |-> merged(i)]
                         \o SubSeq(updates, Len(stored_records) + 1, Len(updates)))

Register(schema) ==
    /\ Len(reg_log) < MaxRegs
    /\ schemas_by_id' = register(schemas_by_id, schema)
    /\ reg_log' = Append(reg_log, schema)
    /\ ret' = [t |-> "call", op |-> "register", result |-> None]
    /\ UNCHANGED fieldVars
    /\ UNCHANGED mergeVars
    /\ UNCHANGED serviceVars

Get(schema_id) ==
    /\ ret' = [t |-> "call", op |-> "get", schema_id |-> schema_id,
               result |-> get(schemas_by_id, schema_id)]
    /\ UNCHANGED <<schemas_by_id, reg_log>>
    /\ UNCHANGED fieldVars
    /\ UNCHANGED mergeVars
    /\ UNCHANGED serviceVars

MutateRecords(schema_id, stored_records, updates) ==
    /\ ret = NotCalled
    /\ ret' = [t |-> "call", op |-> "mutate_records", schema_id |-> schema_id,
               stored_records |-> stored_records, updates |-> updates,
               result |-> mutate_records(schemas_by_id, schema_id, stored_records, updates)]
    /\ UNCHANGED <<schemas_by_id, reg_log>>
    /\ UNCHANGED fieldVars
    /\ UNCHANGED mergeVars
    /\ UNCHANGED serviceVars

IdleFields ==
    /\ ctor_calls = <<>> /\ fields = NotCalled /\ model_cls = NotCalled
    /\ instance = NotCalled /\ IdleFunc

----------------------------------------------------------------------------
(* register and get *)

InitRegistry ==
    /\ \E schemas \in {<<>>} \cup ListsOf(SchemaPool, MaxRegs - 1) :
           /\ schemas_by_id = RegistryOf(schemas)
           /\ reg_log = schemas
    /\ ret = NotCalled
    /\ IdleFields /\ IdleMerge /\ IdleService

NextRegistry ==
    \/ \E schema \in SchemaPool : Register(schema)
    \/ \E schema_id \in SchemaIds : Get(schema_id)

SpecRegistry == InitRegistry /\ [][NextRegistry]_vars

\* the positions of the register calls made with schema_id
RegisteredAt(schema_id) == {i \in 1..Len(reg_log) : reg_log[i].id = schema_id}

\* C7: get(id) returns the schema object most recently registered under id
\* (constructor registrations included) and raises KeyError for an id that was
\* never registered.
C7_GetReturnsLastRegistered ==
    (ret.t = "call" /\ ret.op = "get") =>
        LET at == RegisteredAt(ret.schema_id)
        IN IF at = {} THEN ret.result = Raised("KeyError")
           ELSE ret.result = reg_log[CHOOSE i \in at : \A j \in at : j <= i]

\* get answered for an id under which two different objects were registered
C7_Witness ==
    /\ ret.t = "call" /\ ret.op = "get"
    /\ \E i, j \in RegisteredAt(ret.schema_id) :
           i < j /\ reg_log[i].obj # reg_log[j].obj /\ ret.result = reg_log[j]

----------------------------------------------------------------------------
(* mutate_records *)

\* stored records and patches: keyword dicts over the schema's fields, two
\* partial, one with a key no schema declares
RecordPool ==
    {(K_c :> StrV(<<"a">>)),
     (K_c :> StrV(<<"b">>)) @@ (K_p :> IntV(2)) @@ (<<"z">> :> IntV(3)),
     (K_p :> IntV(1))}

RecordLists == {<<>>} \cup ListsOf(RecordPool, MaxRecords)

\* a registry constructed as RecordSchemaRegistry() or RecordSchemaRegistry([schema])
InitMutate ==
    /\ \E schemas \in {<<>>} \cup ListsOf(SchemaPool, 1) :
           /\ schemas_by_id = RegistryOf(schemas)
           /\ reg_log = schemas
    /\ ret = NotCalled
    /\ IdleFields /\ IdleMerge /\ IdleService

NextMutate ==
    \E schema_id \in SchemaIds, stored_records \in RecordLists, updates \in RecordLists :
        MutateRecords(schema_id, stored_records, updates)

SpecMutate == InitMutate /\ [][NextMutate]_vars

\* the keyword dict the i-th typed record is to be built from
ExpectedSource(stored_records, updates, i) ==
    IF i > Len(stored_records) THEN updates[i]
    ELSE IF i > Len(updates) THEN stored_records[i]
    ELSE [k \in DOMAIN stored_records[i] \cup DOMAIN updates[i] |->
             IF k \in DOMAIN updates[i] THEN updates[i][k] ELSE stored_records[i][k]]

\* C6: mutate_records returns max(len(stored_records), len(updates)) typed
\* records in order; record i is stored_records[i] with the keys of updates[i]
\* overriding it (unchanged when there is no updates[i]), and each update
\* beyond the stored records becomes a record built from that update alone.
C6_MutateRecordsMerges ==
    (ret.t = "call" /\ ret.op = "mutate_records" /\ ret.result.t = "list") =>
        LET recs == ret.result.v
            defs == build_record_model(schemas_by_id[ret.schema_id]).defs
        IN /\ Len(recs) = Max(Len(ret.stored_records), Len(ret.updates))
           /\ \A i \in 1..Len(recs) :
                  LET src == ExpectedSource(ret.stored_records, ret.updates, i)
                  IN \A k \in KeysOf(defs) :
                         recs[i].values[k] = IF k \in DOMAIN src THEN src[k]
                                             ELSE DefOf(defs, k).info.default

\* an update changed a key of a stored record, left a stored record without
\* update alone, or added a record beyond the stored ones
C6_Witness ==
    /\ ret.t = "call" /\ ret.op = "mutate_records" /\ ret.result.t = "list"
    /\ Len(ret.updates) > Len(ret.stored_records)
    /\ \E i \in 1..Len(ret.stored_records) : \E k \in DOMAIN ret.updates[i] :
           /\ k \in DOMAIN ret.stored_records[i]
           /\ ret.updates[i][k] # ret.stored_records[i][k]
           /\ ret.result.v[i].values[k] = ret.updates[i][k]

----------------------------------------------------------------------------
(* BaseModel.merged_with and BaseModel.update_from *)

MaxItems == 2

\* the model classes of the test suite, as (name, default) in declaration
\* order: Address with a scalar and a dict field, User with a list, a dict
\* and a nested Address; their other scalar fields merge as Address.city does
model_fields(cls) ==
    CASE cls = "Address" -> <<[name |-> "city", default |-> None],
                              [name |-> "meta", default |-> DictV(EmptyKw)]>>
      [] cls = "User" -> <<[name |-> "tags", default |-> None],
                           [name |-> "settings", default |-> None],
                           [name |-> "address", default |-> None]>>
      \* RecordSchemaDefinition: name = "record name" (written "r" here) is a
      \* default that is not None; id, ref and field_definitions are left out
      [] cls = "RecordSchemaDefinition" ->
             <<[name |-> "name", default |-> StrV(<<"r">>)],
               [name |-> "description", default |-> None]>>

FieldNames(cls) == {model_fields(cls)[i].name : i \in DOMAIN model_fields(cls)}

FieldDefault(cls, name) ==
    (CHOOSE f \in {model_fields(cls)[i] : i \in DOMAIN model_fields(cls)} : f.name = name).default

\* cls(keywords): the fields given are the explicitly set ones (model_fields_set),
\* every other field holds a copy of its default
BaseModel__init__(cls, kwargs) ==
    [t |-> "model", cls |-> cls,
     values |-> [name \in FieldNames(cls) |->
                    IF name \in DOMAIN kwargs THEN kwargs[name] ELSE FieldDefault(cls, name)],
     fields_set |-> DOMAIN kwargs \cap FieldNames(cls)]

\* item in seq
In(item, seq) == \E i \in DOMAIN seq : seq[i] = item

RECURSIVE to_add(_, _, _)
\* the loop of _merge_value over incoming, collecting the items to append
to_add(incoming, current, acc) ==
    IF incoming = <<>> THEN acc
    ELSE LET item == Head(incoming)
         IN to_add(Tail(incoming), current,
                   IF In(item, acc) \/ In(item, current) THEN acc ELSE Append(acc, item))

RECURSIVE merged_with(_, _, _, _)
RECURSIVE _merge_value(_, _)
RECURSIVE merge_fields(_, _, _, _, _)

\* _merge_value whose list rule appends every incoming item
_merge_value_list_concat(current, incoming) ==
    IF incoming = None THEN current
    ELSE IF current.t = "dict" /\ incoming.t = "dict" THEN DictV(incoming.v @@ current.v)
    ELSE IF current.t = "model" /\ incoming.t = "model"
         THEN merged_with(current, incoming, TRUE, TRUE)
    ELSE IF current.t = "list" /\ incoming.t = "list" THEN ListV(current.v \o incoming.v)
    ELSE incoming

\* _merge_value whose dict rule lets the current value win
_merge_value_dict_keeps_current(current, incoming) ==
    IF incoming = None THEN current
    ELSE IF current.t = "dict" /\ incoming.t = "dict" THEN DictV(current.v @@ incoming.v)
    ELSE IF current.t = "model" /\ incoming.t = "model"
         THEN merged_with(current, incoming, TRUE, TRUE)
    ELSE IF current.t = "list" /\ incoming.t = "list"
         THEN ListV(current.v \o to_add(incoming.v, current.v, <<>>))
    ELSE incoming

\* _merge_value without the nested-model rule: a nested model is replaced
_merge_value_nested_replace(current, incoming) ==
    IF incoming = None THEN current
    ELSE IF current.t = "dict" /\ incoming.t = "dict" THEN DictV(incoming.v @@ current.v)
    ELSE IF current.t = "list" /\ incoming.t = "list"
         THEN ListV(current.v \o to_add(incoming.v, current.v, <<>>))
    ELSE incoming

\* BaseModel._merge_value; {**current, **incoming} is incoming.v @@ current.v
_merge_value(current, incoming) ==
    IF incoming = None THEN current
    ELSE IF current.t = "dict" /\ incoming.t = "dict" THEN DictV(incoming.v @@ current.v)
    ELSE IF current.t = "model" /\ incoming.t = "model"
         THEN merged_with(current, incoming, TRUE, TRUE)
    ELSE IF current.t = "list" /\ incoming.t = "list"
         THEN ListV(current.v \o to_add(incoming.v, current.v, <<>>))
    ELSE incoming

RECURSIVE merge_fields_ignores_unset(_, _, _, _, _)
\* merge_fields without the exclude_unset test: unset fields of other are merged too
merge_fields_ignores_unset(result, other, names, exclude_unset, exclude_none) ==
    IF names = <<>> THEN result
    ELSE LET name == Head(names).name
             inc == other.values[name]
             merged_val == _merge_value(result.values[name], inc)
         IN IF exclude_none /\ inc = None
            THEN merge_fields_ignores_unset(result, other, Tail(names),
                                            exclude_unset, exclude_none)
            ELSE IF merged_val.t = "raised" THEN merged_val
            ELSE merge_fields_ignores_unset(
                     [result EXCEPT !.values[name] = merged_val,
                                    !.fields_set = @ \cup {name}],
                     other, Tail(names), exclude_unset, exclude_none)

\* the loop of merged_with over type(self).model_fields; setattr records the
\* name in the result's model_fields_set, an exception of the nested merge
\* ends the call
merge_fields(result, other, names, exclude_unset, exclude_none) ==
    IF names = <<>> THEN result
    ELSE LET name == Head(names).name
             inc == other.values[name]
             merged_val == _merge_value(result.values[name], inc)
         IN IF exclude_unset /\ name \notin other.fields_set
            THEN merge_fields(result, other, Tail(names), exclude_unset, exclude_none)
            ELSE IF exclude_none /\ inc = None
            THEN merge_fields(result, other, Tail(names), exclude_unset, exclude_none)
            ELSE IF merged_val.t = "raised" THEN merged_val
            ELSE merge_fields([result EXCEPT !.values[name] = merged_val,
                                             !.fields_set = @ \cup {name}],
                              other, Tail(names), exclude_unset, exclude_none)

\* merged_with whose type test raises ValueError
merged_with_raises_value_error(self, other, exclude_unset, exclude_none) ==
    IF self.cls # other.cls THEN Raised("ValueError")
    ELSE merge_fields(self, other, model_fields(self.cls), exclude_unset, exclude_none)

\* BaseModel.merged_with: result starts as self.model_copy(deep=True)
merged_with(self, other, exclude_unset, exclude_none) ==
    IF self.cls # other.cls THEN Raised("TypeError")
    ELSE merge_fields(self, other, model_fields(self.cls), exclude_unset, exclude_none)

\* update_from that does not pass its flags on to merged_with
update_from_drops_flags(self, other, exclude_unset, exclude_none) ==
    LET merged == merged_with(self, other, FALSE, TRUE)
    IN IF merged.t = "raised" THEN merged
       ELSE [self EXCEPT !.values = merged.values, !.fields_set = FieldNames(self.cls)]

\* BaseModel.update_from: every field of self is assigned from the merged copy
update_from(self, other, exclude_unset, exclude_none) ==
    LET merged == merged_with(self, other, exclude_unset, exclude_none)
    IN IF merged.t = "raised" THEN merged
       ELSE [self EXCEPT !.values = merged.values, !.fields_set = FieldNames(self.cls)]

\* merged_with assigning to self itself (result = self)
merge_target_in_place == "self"

\* the object the setattr calls of merged_with assign to:
\* result = self.model_copy(deep=True), a new object sharing nothing with self
merge_target == "copy"

\* a.merged_with(b, ...): the assignments go to the merge target, which is
\* returned; nothing else is written
MergedWith(exclude_unset, exclude_none) ==
    LET result == merged_with(m_self, m_other, exclude_unset, exclude_none)
        in_place == merge_target = "self" /\ result.t = "model"
    IN /\ m_call = NotCalled
       /\ m_call' = [t |-> "call", op |-> "merged_with",
                     exclude_unset |-> exclude_unset, exclude_none |-> exclude_none,
                     self |-> m_self, other |-> m_other, is_self |-> in_place,
                     result |-> result]
       /\ m_self' = IF in_place THEN result ELSE m_self
       /\ UNCHANGED m_other
       /\ UNCHANGED fieldVars
       /\ UNCHANGED registryVars
       /\ UNCHANGED serviceVars

\* a.update_from(b, ...): self is assigned in place and returned
UpdateFrom(exclude_unset, exclude_none) ==
    LET updated == update_from(m_self, m_other, exclude_unset, exclude_none)
    IN /\ m_call = NotCalled
       /\ m_self' = IF updated.t = "raised" THEN m_self ELSE updated
       /\ m_call' = [t |-> "call", op |-> "update_from",
                     exclude_unset |-> exclude_unset, exclude_none |-> exclude_none,
                     self |-> m_self, other |-> m_other, is_self |-> updated.t # "raised",
                     result |-> updated]
       /\ UNCHANGED m_other
       /\ UNCHANGED fieldVars
       /\ UNCHANGED registryVars
       /\ UNCHANGED serviceVars

----------------------------------------------------------------------------
(* merged_with and update_from over pairs of models *)

ItemPool == {IntV(1), IntV(2)}
ListPool == {ListV(s) : s \in {<<>>} \cup ListsOf(ItemPool, MaxItems)}
DictPool == {DictV(EmptyKw),
             DictV("x" :> IntV(1)),
             DictV(("x" :> IntV(2)) @@ ("y" :> IntV(1))),
             DictV(("y" :> IntV(2)) @@ ("z" :> IntV(1)))}
CityPool == {None, StrV(<<"a">>), StrV(<<"b">>)}

\* all keyword dicts giving some of the fields a value of its pool
KwargsOver(pools) ==
    UNION {[names -> UNION {pools[n] : n \in names}] : names \in SUBSET DOMAIN pools}

WellTyped(pools, kwargs) == \A n \in DOMAIN kwargs : kwargs[n] \in pools[n]

AddressPool ==
    LET pools == ("city" :> CityPool) @@ ("meta" :> DictPool)
    IN {BaseModel__init__("Address", kwargs) :
            kwargs \in {kw \in KwargsOver(pools) : WellTyped(pools, kw)}}

\* User objects: one field given, or all three from small pools
UserPool ==
    LET one == ("tags" :> ({None} \cup ListPool)) @@ ("settings" :> ({None} \cup DictPool))
               @@ ("address" :> ({None} \cup AddressPool))
        all == ("tags" :> {ListV(<<IntV(1)>>), ListV(<<IntV(2), IntV(1)>>)})
               @@ ("settings" :> {DictV("x" :> IntV(1))})
               @@ ("address" :> {BaseModel__init__("Address", ("city" :> StrV(<<"a">>))),
                                 BaseModel__init__("Address", ("meta" :> DictV("x" :> IntV(1))))})
    IN {BaseModel__init__("User", kwargs) :
            kwargs \in {EmptyKw}
                       \cup UNION {{n :> v : v \in one[n]} : n \in DOMAIN one}
                       \cup {("tags" :> t) @@ ("settings" :> d) @@ ("address" :> a) :
                                 t \in all["tags"], d \in all["settings"], a \in all["address"]}}

DefinitionPool ==
    LET pools == ("name" :> {StrV(<<"a">>), StrV(<<"r">>)}) @@ ("description" :> CityPool)
    IN {BaseModel__init__("RecordSchemaDefinition", kwargs) :
            kwargs \in {kw \in KwargsOver(pools) : WellTyped(pools, kw)}}

\* every object is as its constructor left it; the values of the pools have the
\* declared types, so validate_assignment returns what merged_with assigns
ModelPool == AddressPool \cup UserPool \cup DefinitionPool

InitMerge ==
    /\ m_self \in ModelPool
    /\ m_other \in ModelPool
    /\ m_call = NotCalled
    /\ IdleFields /\ IdleRegistry /\ IdleService

NextMerge ==
    \E exclude_unset \in BOOLEAN, exclude_none \in BOOLEAN :
        \/ MergedWith(exclude_unset, exclude_none)
        \/ UpdateFrom(exclude_unset, exclude_none)

SpecMerge == InitMerge /\ [][NextMerge]_vars

\* a merged_with call that returned a model
Merged == m_call.t = "call" /\ m_call.op = "merged_with" /\ m_call.result.t = "model"

\* the fields holding a value of kind t in both self and other
BothAre(t) ==
    {name \in FieldNames(m_call.self.cls) :
        m_call.self.values[name].t = t /\ m_call.other.values[name].t = t}

RECURSIVE Keep(_, _)
\* the elements of seq at the positions in keep, in order
Keep(seq, keep) ==
    IF seq = <<>> THEN <<>>
    ELSE Keep(SubSeq(seq, 1, Len(seq) - 1), keep)
         \o (IF Len(seq) \in keep THEN <<seq[Len(seq)]>> ELSE <<>>)

\* the items of inc that occur neither in cur nor earlier in inc, in inc's order
NewItems(cur, inc) ==
    Keep(inc, {i \in DOMAIN inc : /\ \A j \in DOMAIN cur : cur[j] # inc[i]
                                  /\ \A j \in 1..(i - 1) : inc[j] # inc[i]})

ShallowUnion(res, cur, inc) ==
    /\ res.t = "dict"
    /\ DOMAIN res.v = DOMAIN cur.v \cup DOMAIN inc.v
    /\ \A k \in DOMAIN inc.v : res.v[k] = inc.v[k]
    /\ \A k \in DOMAIN cur.v \ DOMAIN inc.v : res.v[k] = cur.v[k]

SetInNested(inc) == {nf \in inc.fields_set : inc.values[nf] # None}

C11_ExcludedFieldsKeepSelfValue ==
    Merged => \A name \in FieldNames(m_call.self.cls) :
                  /\ (m_call.exclude_none /\ m_call.other.values[name] = None)
                         => m_call.result.values[name] = m_call.self.values[name]
                  /\ (m_call.exclude_unset /\ name \notin m_call.other.fields_set)
                         => m_call.result.values[name] = m_call.self.values[name]
                  /\ m_call.exclude_none
                         => (m_call.result.values[name] = None
                                 => m_call.self.values[name] = None)

\* one call in which other holds an explicit None where self holds a value, and
\* leaves unset a field whose default differs from self's value
C11_Witness ==
    /\ Merged /\ m_call.exclude_none /\ m_call.exclude_unset
    /\ \E name \in m_call.other.fields_set :
           m_call.other.values[name] = None /\ m_call.self.values[name] # None
    /\ \E name \in FieldNames(m_call.self.cls) \ m_call.other.fields_set :
           m_call.other.values[name] # m_call.self.values[name]

\* an update_from call that returned
Updated == m_call.t = "call" /\ m_call.op = "update_from" /\ m_call.result.t = "model"

\* C12: after a.update_from(b, exclude_unset=u, exclude_none=n) every field of
\* a equals the field of what a.merged_with(b, exclude_unset=u, exclude_none=n)
\* returns on a's state before the call; b is unchanged and the object
\* returned is a itself.
C12_UpdateFromIsMergedWithInPlace ==
    Updated =>
        LET merged == merged_with(m_call.self, m_call.other,
                                  m_call.exclude_unset, m_call.exclude_none)
        IN /\ \A name \in FieldNames(m_self.cls) : m_self.values[name] = merged.values[name]
           /\ m_other = m_call.other
           /\ m_call.is_self /\ m_call.result = m_self

\* an update that changed a, under flags other than the defaults
C12_Witness ==
    /\ Updated
    /\ m_call.exclude_unset /\ ~m_call.exclude_none
    /\ m_self.values # m_call.self.values
    /\ \E name \in FieldNames(m_self.cls) \ m_call.other.fields_set :
           m_call.other.values[name] # m_self.values[name]

TypeMismatch == m_call.t = "call" /\ m_call.self.cls # m_call.other.cls

\* C14: merged_with raises TypeError whenever type(self) is not type(other),
\* changing neither self nor other; update_from with such an argument raises
\* the same error and leaves self unchanged.
C14_TypeMismatchRaisesTypeError ==
    TypeMismatch => /\ m_call.result = Raised("TypeError")
                    /\ m_self = m_call.self
                    /\ m_other = m_call.other

\* update_from was called with an Address on a User that has fields set
C14_Witness ==
    /\ TypeMismatch /\ m_call.op = "update_from"
    /\ m_call.self.cls = "User" /\ m_call.other.cls = "Address"
    /\ m_call.self.fields_set # {} /\ m_call.other.fields_set # {}

----------------------------------------------------------------------------
(* BaseModel.safe_validate *)

Annotated(name, typ, optional, default) ==
    [name |-> name, typ |-> typ, optional |-> optional, default |-> default]

\* annotated fields of three model classes: User of the test suite (name, age),
\* RecordSchemaDefinition (name, description) and DataTypeFieldBase (label,
\* description); optional is the  | None  of the annotation
annotated_fields(cls) ==
    CASE cls = "User" -> <<Annotated("name", "str", TRUE, None),
                           Annotated("age", "int", TRUE, None)>>
      [] cls = "RecordSchemaDefinition" ->
             <<Annotated("name", "str", FALSE, StrV(<<"r">>)),
               Annotated("description", "str", TRUE, None)>>
      [] cls = "DataTypeFieldBase" ->
             <<Annotated("label", "str", FALSE, Required),
               Annotated("description", "str", TRUE, None)>>

AnnotatedNames(cls) == {annotated_fields(cls)[i].name : i \in DOMAIN annotated_fields(cls)}
AnnotatedField(cls, name) ==
    CHOOSE f \in {annotated_fields(cls)[i] : i \in DOMAIN annotated_fields(cls)} : f.name = name

Digits == ("0" :> 0) @@ ("1" :> 1) @@ ("2" :> 2)

RECURSIVE ParseInt(_)
\* int("12") for a non-empty string of digits
ParseInt(s) ==
    IF Len(s) = 1 THEN Digits[s[1]]
    ELSE 10 * ParseInt(SubSeq(s, 1, Len(s) - 1)) + Digits[s[Len(s)]]

InvalidValue == [t |-> "invalid"]

\* pydantic validating x for one annotated field, lax mode: a str field takes
\* only str, an int field takes an int or a string of digits, which it
\* converts; None is taken by optional fields only
validate_field(f, x) ==
    IF x = None THEN (IF f.optional THEN None ELSE InvalidValue)
    ELSE IF f.typ = "str" THEN (IF x.t = "str" THEN x ELSE InvalidValue)
    ELSE IF x.t = "int" THEN x
    ELSE IF x.t = "str" /\ x.v # <<>> /\ \A i \in DOMAIN x.v : x.v[i] \in DOMAIN Digits
         THEN IntV(ParseInt(x.v))
    ELSE InvalidValue

\* cls.model_validate(data) and cls(data): the model, or the first element of
\* the location of every error (a field that is invalid, or required and missing)
model_validate(cls, data) ==
    LET names == AnnotatedNames(cls)
        val(n) == IF n \in DOMAIN data THEN validate_field(AnnotatedField(cls, n), data[n])
                  ELSE IF AnnotatedField(cls, n).default = Required THEN InvalidValue
                  ELSE AnnotatedField(cls, n).default
        errors == {n \in names : val(n) = InvalidValue}
    IN IF errors # {} THEN [t |-> "errors", loc |-> errors]
       ELSE [t |-> "model", cls |-> cls, values |-> [n \in names |-> val(n)],
             fields_set |-> names \cap DOMAIN data]

\* BaseModel.safe_validate: on a ValidationError the fields named by the errors
\* are set to None and the class is called with  data | values ; what that
\* call raises leaves safe_validate
safe_validate(cls, data) ==
    LET first == model_validate(cls, data)
        values == [n \in first.loc |-> None]
        m == model_validate(cls, values @@ data)
    IN IF first.t = "model" THEN first
       ELSE IF m.t = "errors" THEN ValidationError
       ELSE m

SafeValidate(cls, data) ==
    /\ m_call = NotCalled
    /\ m_call' = [t |-> "call", op |-> "safe_validate", cls |-> cls, data |-> data,
                  result |-> safe_validate(cls, data)]
    /\ UNCHANGED <<m_self, m_other>>
    /\ UNCHANGED fieldVars
    /\ UNCHANGED registryVars
    /\ UNCHANGED serviceVars

----------------------------------------------------------------------------
(* safe_validate over keyword dicts *)

ValidatedClasses == {"User", "RecordSchemaDefinition", "DataTypeFieldBase"}

OfferedValues == {None, StrV(<<"a">>), StrV(<<"1", "2">>), IntV(1), ListV(<<>>)}

\* dicts giving some of the class's fields, and maybe an unknown key, a value
OfferedData(cls) ==
    UNION {[keys -> OfferedValues] : keys \in SUBSET (AnnotatedNames(cls) \cup {"z"})}

InitValidate == IdleFields /\ IdleRegistry /\ IdleMerge /\ IdleService

NextValidate == \E cls \in ValidatedClasses : \E data \in OfferedData(cls) : SafeValidate(cls, data)

SpecValidate == InitValidate /\ [][NextValidate]_vars

SafeValidated == m_call.t = "call" /\ m_call.op = "safe_validate"

\* the value a field of data validates to on its own, or InvalidValue
ValidatedAlone(cls, name, x) == validate_field(AnnotatedField(cls, name), x)

\* the call returned a model in which every field of data that fails
\* validation is None and every other field of data holds its validated value
ReturnsRepairedModel ==
    /\ m_call.result.t = "model"
    /\ \A name \in DOMAIN m_call.data \cap AnnotatedNames(m_call.cls) :
           LET v == ValidatedAlone(m_call.cls, name, m_call.data[name])
           IN m_call.result.values[name] = IF v = InvalidValue THEN None ELSE v

\* C15: safe_validate(data) returns a model instead of raising: every
\* top-level field of data that fails validation is None in the returned
\* model, and every field that validates holds its validated value.
C15_SafeValidateReturnsModel == SafeValidated => ReturnsRepairedModel

\* C15 where it holds: when no field that fails or is missing is declared
\* without  | None , safe_validate returns the repaired model
C15_SafeValidateOfOptionalFields ==
    (/\ SafeValidated
     /\ \A name \in AnnotatedNames(m_call.cls) :
            \/ AnnotatedField(m_call.cls, name).optional
            \/ /\ name \in DOMAIN m_call.data
               /\ ValidatedAlone(m_call.cls, name, m_call.data[name]) # InvalidValue
            \/ /\ name \notin DOMAIN m_call.data
               /\ AnnotatedField(m_call.cls, name).default # Required)
        => ReturnsRepairedModel

----------------------------------------------------------------------------
(* AMQPublisher and AMQPSimplePublisher: initialize, publish, close *)

MaxPools == 6

\* __init__ of both classes: no pools, not initialized
Publisher__init__(cls) ==
    [cls |-> cls, _is_initialized |-> FALSE, _connection_pool |-> None, _channel_pool |-> None]

Pool(factory) == [factory |-> factory, closed |-> FALSE]
\* what an attribute holding the i-th Pool holds
PoolRef(i) == [t |-> "pool", id |-> i]

\* initialize without its  if self._is_initialized: return
initialize_always(self, created) ==
    [self |-> [self EXCEPT !._connection_pool = PoolRef(Len(created) + 1),
                           !._channel_pool = PoolRef(Len(created) + 2),
                           !._is_initialized = TRUE],
     pools |-> created \o <<Pool("_create_connection"), Pool("_create_channel")>>]

\* initialize: the object and the pools in existence after the call
initialize(self, created) ==
    IF self._is_initialized THEN [self |-> self, pools |-> created]
    ELSE [self |-> [self EXCEPT !._connection_pool = PoolRef(Len(created) + 1),
                                !._channel_pool = PoolRef(Len(created) + 2),
                                !._is_initialized = TRUE],
          pools |-> created \o <<Pool("_create_connection"), Pool("_create_channel")>>]

\* close without its  self._is_initialized = False
close_keeps_flag(self, created) ==
    [self |-> self,
     pools |-> [i \in DOMAIN created |->
                   IF PoolRef(i) \in {self._channel_pool, self._connection_pool}
                   THEN [created[i] EXCEPT !.closed = TRUE] ELSE created[i]]]

\* close: both pools, when there are any, are closed and the flag is cleared;
\* the attributes keep the closed pools
close(self, created) ==
    [self |-> [self EXCEPT !._is_initialized = FALSE],
     pools |-> [i \in DOMAIN created |->
                   IF PoolRef(i) \in {self._channel_pool, self._connection_pool}
                   THEN [created[i] EXCEPT !.closed = TRUE] ELSE created[i]]]

\* exchanges the AMQPublisher is constructed with
ConfiguredExchanges == {"events"}

\* publish: the two guards, then what the broker does with the message:
\* "ack", "nack", "timeout" waiting for the confirm, or another "error"
publish(self, exchange, require_confirm, broker) ==
    IF ~self._is_initialized THEN Raised("RuntimeError")
    ELSE IF self._channel_pool = None THEN Raised("RuntimeError")
    ELSE IF self.cls = "AMQPublisher"
    THEN IF exchange \notin ConfiguredExchanges THEN Raised("ValueError")
         ELSE IF broker = "error" THEN Raised("Exception")
         ELSE IF ~require_confirm THEN BoolV(TRUE)
         ELSE IF broker = "timeout" THEN Raised("ValueError")
         ELSE BoolV(broker = "ack")
    ELSE IF broker = "error" THEN BoolV(FALSE)
         ELSE IF ~require_confirm THEN BoolV(TRUE)
         ELSE BoolV(broker = "ack")

PublisherCall(op, args, result, after) ==
    [t |-> "call", op |-> op, args |-> args, fresh |-> pub_fresh,
     self |-> publisher, created |-> pool_objs, result |-> result, pools_after |-> after]

Initialize ==
    LET r == initialize(publisher, pool_objs)
    IN /\ Len(r.pools) <= MaxPools
       /\ publisher' = r.self
       /\ pool_objs' = r.pools
       /\ pub_call' = PublisherCall("initialize", None, None, r.pools)
       /\ pub_fresh' = FALSE
       /\ UNCHANGED <<fieldVars, registryVars, mergeVars, peekVars, clerkVars, subscriberVars, scopeVars>>

Publish(exchange, require_confirm, broker) ==
    /\ pub_call' = PublisherCall("publish", [exchange |-> exchange, require_confirm |-> require_confirm,
                                             broker |-> broker],
                                 publish(publisher, exchange, require_confirm, broker), pool_objs)
    /\ UNCHANGED <<publisher, pool_objs, pub_fresh>>
    /\ UNCHANGED <<fieldVars, registryVars, mergeVars, peekVars, clerkVars, subscriberVars, scopeVars>>

Close ==
    LET r == close(publisher, pool_objs)
    IN /\ publisher' = r.self
       /\ pool_objs' = r.pools
       /\ pub_call' = PublisherCall("close", None, None, r.pools)
       /\ pub_fresh' = TRUE
       /\ UNCHANGED <<fieldVars, registryVars, mergeVars, peekVars, clerkVars, subscriberVars, scopeVars>>

----------------------------------------------------------------------------
(* a publisher of either class through any order of initialize, publish, close *)

PublisherClasses == {"AMQPublisher", "AMQPSimplePublisher"}
ExchangePool == {"events", "other"}
BrokerOutcomes == {"ack", "nack", "timeout", "error"}

InitPublisher ==
    /\ \E cls \in PublisherClasses : publisher = Publisher__init__(cls)
    /\ pool_objs = <<>> /\ pub_call = NotCalled /\ pub_fresh = TRUE
    /\ IdleFields /\ IdleRegistry /\ IdleMerge /\ IdlePeek /\ IdleClerk /\ IdleSubscriber /\ IdleScope

NextPublisher ==
    \/ Initialize
    \/ \E exchange \in ExchangePool, require_confirm \in BOOLEAN, broker \in BrokerOutcomes :
           Publish(exchange, require_confirm, broker)
    \/ Close

SpecPublisher == InitPublisher /\ [][NextPublisher]_vars

PublisherCalled(op) == pub_call.t = "call" /\ pub_call.op = op

C16_WitnessSecondInitialize ==
    /\ PublisherCalled("initialize") /\ ~pub_call.fresh
    /\ pub_call.created # <<>>

----------------------------------------------------------------------------
(* RabbitMQPeeker.peek_messages *)

MaxQueue == 3
MaxPeek == 3

\* the broker puts a message that is given back (basic_reject with requeue, or
\* unacknowledged when the connection closes) at the head of the queue, its
\* original position, or at the tail when that position is taken
requeue(queue, message, at) ==
    LET again == [message EXCEPT !.redelivered = TRUE]
    IN IF at = "head" THEN <<again>> \o queue ELSE queue \o <<again>>

RECURSIVE requeue_all(_, _, _)
\* connection.close(): every delivery not settled goes back to the queue
requeue_all(queue, unacked, at) ==
    IF unacked = <<>> THEN queue
    ELSE requeue_all(requeue(queue, unacked[Len(unacked)], at),
                     SubSeq(unacked, 1, Len(unacked) - 1), at)

Min(a, b) == IF a <= b THEN a ELSE b

\* the channel while peek_messages runs: the queue, the deliveries fetched and
\* not settled, the log of channel calls, and the messages list
Channel(queue) == [queue |-> queue, unacked |-> <<>>, log |-> <<>>, messages |-> <<>>]

RECURSIVE peek_loop(_, _, _, _)
\* for i in range(...): basic_get, parse, filter, append, basic_reject
peek_loop(ch, service_filter, left, at) ==
    IF left = 0 \/ ch.queue = <<>> THEN ch
    ELSE LET message == Head(ch.queue)
             got == [ch EXCEPT !.queue = Tail(ch.queue),
                               !.unacked = Append(ch.unacked, message),
                               !.log = Append(ch.log, [op |-> "basic_get", id |-> message.id])]
         IN IF service_filter # None /\ ~In(message.service_name, service_filter.v)
            THEN peek_loop(got, service_filter, left - 1, at)
            ELSE peek_loop([got EXCEPT
                               !.messages = Append(got.messages, message),
                               !.unacked = SubSeq(got.unacked, 1, Len(got.unacked) - 1),
                               !.queue = requeue(got.queue, message, at),
                               !.log = Append(got.log, [op |-> "basic_reject", id |-> message.id])],
                           service_filter, left - 1, at)

\* peek_messages: the channel after the finally block closed the connection
peek_messages(queue, service_filter, max_messages, at) ==
    LET message_count == Len(queue)
        ch == IF message_count = 0 THEN Channel(queue)
              ELSE peek_loop(Channel(queue), service_filter,
                             IF max_messages < 0 THEN 0 ELSE Min(max_messages, message_count), at)
    IN [ch EXCEPT !.queue = requeue_all(ch.queue, ch.unacked, at), !.unacked = <<>>]

PeekMessages(service_filter, max_messages, at) ==
    LET ch == peek_messages(error_queue, service_filter, max_messages, at)
    IN /\ peek_call = NotCalled
       /\ peek_call' = [t |-> "call", service_filter |-> service_filter,
                        max_messages |-> max_messages, queue |-> error_queue,
                        log |-> ch.log, result |-> ch.messages]
       /\ error_queue' = ch.queue
       /\ UNCHANGED <<fieldVars, registryVars, mergeVars, publisherVars, clerkVars, subscriberVars, scopeVars>>

----------------------------------------------------------------------------
(* peeking at error queues of up to MaxQueue messages *)

ErrorRecord(id, service_name) == [id |-> id, service_name |-> service_name, redelivered |-> FALSE]

\* error records of two services
ErrorRecordPool == {ErrorRecord(1, "billing"), ErrorRecord(2, "mail"), ErrorRecord(3, "billing")}

RECURSIVE QueuesOf(_)
\* queues of n messages
QueuesOf(n) ==
    IF n = 0 THEN {<<>>}
    ELSE {Append(q, m) : q \in QueuesOf(n - 1), m \in ErrorRecordPool}

ServiceFilters == {None, ListV(<<>>), ListV(<<"billing">>), ListV(<<"mail">>)}

InitPeek ==
    /\ \E n \in 0..MaxQueue : \E q \in QueuesOf(n) :
           /\ \A i, j \in DOMAIN q : q[i].id = q[j].id => i = j
           /\ error_queue = q
    /\ peek_call = NotCalled
    /\ IdleFields /\ IdleRegistry /\ IdleMerge /\ IdlePublisher /\ IdleClerk /\ IdleSubscriber /\ IdleScope

NextPeek ==
    \E service_filter \in ServiceFilters, max_messages \in 0..MaxPeek, at \in {"head", "tail"} :
        PeekMessages(service_filter, max_messages, at)

SpecPeek == InitPeek /\ [][NextPeek]_vars

Peeked == peek_call.t = "call"

LoggedIds(op) == {peek_call.log[i].id : i \in {j \in DOMAIN peek_call.log : peek_call.log[j].op = op}}

\* C17: peek_messages looks at the error queue without consuming it: every
\* message it fetches is handed back to the queue (rejected with requeue) and
\* none is acknowledged, whether or not the message passes service_filter, and
\* at most max_messages messages are returned.
C17_EveryFetchedMessageIsRejected ==
    Peeked =>
        /\ LoggedIds("basic_get") \subseteq LoggedIds("basic_reject")
        /\ LoggedIds("basic_ack") = {}
        /\ Len(peek_call.result) <= peek_call.max_messages

\* C17 without its mechanism: after the call the queue holds the messages it
\* held before, none was acknowledged, the messages that pass the filter were
\* rejected with requeue, and at most max_messages messages are returned
C17_PeekConsumesNothing ==
    Peeked =>
        /\ {error_queue[i].id : i \in DOMAIN error_queue}
               = {peek_call.queue[i].id : i \in DOMAIN peek_call.queue}
        /\ Len(error_queue) = Len(peek_call.queue)
        /\ LoggedIds("basic_ack") = {}
        /\ {peek_call.result[i].id : i \in DOMAIN peek_call.result} = LoggedIds("basic_reject")
        /\ Len(peek_call.result) <= peek_call.max_messages

----------------------------------------------------------------------------
(* clerk: get_current_user_production and invalidate_user_cache over Redis *)

CacheKey(prefix, id) == [prefix |-> prefix, id |-> id]

redis_get(store, key) == IF key \in DOMAIN store THEN store[key] ELSE None
redis_setex(store, key, value) == [k \in DOMAIN store \cup {key} |-> IF k = key THEN value ELSE store[k]]
redis_delete(store, key) == [k \in DOMAIN store \ {key} |-> store[k]]

\* a bearer token: what jwt.decode makes of it (its claims, sub "" when it has
\* none, or "invalid") and its length in characters
Token(id, len, sub, email) == [id |-> id, len |-> len, sub |-> sub, email |-> email]

jwt_decode(token) ==
    IF token.sub = "invalid" THEN [t |-> "text", v |-> "invalid"]
    ELSE [t |-> "payload", sub |-> token.sub, email |-> token.email]

\* TokenVerifier.verify_and_decode_token: the payload (None for an invalid
\* token, fresh or cached as the text "invalid") and the store afterwards
verify_and_decode_token(store, token) ==
    LET cache_key == CacheKey("token_verify", token.id)
        cached_payload == redis_get(store, cache_key)
        decoded == jwt_decode(token)
    IN IF cached_payload # None
       THEN [payload |-> IF cached_payload.t = "payload" THEN cached_payload ELSE None,
             store |-> store]
       ELSE [payload |-> IF decoded.t = "payload" THEN decoded ELSE None,
             store |-> redis_setex(store, cache_key, decoded)]

UserData(payload) == [t |-> "user", clerk_id |-> payload.sub, email |-> payload.email]

\* get_current_user_production: the value returned and the store afterwards
get_current_user_production(store, bearer, token) ==
    LET cached_user == redis_get(store, CacheKey("clerk_token", token.id))
        verified == verify_and_decode_token(store, token)
        payload == verified.payload
        cached_user_by_id == redis_get(verified.store, CacheKey("clerk_user", payload.sub))
        user_data == UserData(payload)
    IN IF ~bearer THEN [result |-> None, store |-> store]
       ELSE IF token.len < 50 THEN [result |-> None, store |-> store]
       ELSE IF cached_user # None THEN [result |-> cached_user, store |-> store]
       ELSE IF payload = None THEN [result |-> None, store |-> verified.store]
       ELSE IF payload.sub = "" THEN [result |-> None, store |-> verified.store]
       ELSE IF cached_user_by_id # None
       THEN [result |-> cached_user_by_id,
             store |-> redis_setex(verified.store, CacheKey("clerk_token", token.id),
                                   cached_user_by_id)]
       ELSE [result |-> user_data,
             store |-> redis_setex(redis_setex(verified.store,
                                               CacheKey("clerk_token", token.id), user_data),
                                   CacheKey("clerk_user", payload.sub), user_data)]

\* ClerkTokenCache.invalidate_user_cache
invalidate_user_cache(store, user_id) == redis_delete(store, CacheKey("clerk_user", user_id))

GetCurrentUser(bearer, token) ==
    LET r == get_current_user_production(redis, bearer, token)
    IN /\ redis' = r.store
       /\ auth_call' = [t |-> "call", op |-> "get_current_user_production",
                        arg |-> token.id, result |-> r.result]
       /\ UNCHANGED <<fieldVars, registryVars, mergeVars, publisherVars, peekVars, subscriberVars, scopeVars>>

InvalidateUserCache(user_id) ==
    /\ redis' = invalidate_user_cache(redis, user_id)
    /\ auth_call' = [t |-> "call", op |-> "invalidate_user_cache",
                     arg |-> user_id, result |-> None]
    /\ UNCHANGED <<fieldVars, registryVars, mergeVars, publisherVars, peekVars, subscriberVars, scopeVars>>

\* an entry written with setex reaches its time to live
Expire(key) ==
    /\ key \in DOMAIN redis
    /\ redis' = redis_delete(redis, key)
    /\ UNCHANGED auth_call
    /\ UNCHANGED <<fieldVars, registryVars, mergeVars, publisherVars, peekVars, subscriberVars, scopeVars>>

----------------------------------------------------------------------------
(* requests of two users, one of them with two tokens issued over time *)

TokenPool == {Token("t1", 60, "u1", "old@x"), Token("t2", 60, "u1", "new@x"),
              Token("t3", 60, "u2", "b@x"), Token("t4", 60, "invalid", "invalid"),
              Token("t5", 10, "u1", "old@x"), Token("t6", 60, "", "c@x")}

UserIds == {"u1", "u2"}

InitClerk ==
    /\ redis = EmptyKw /\ auth_call = NotCalled
    /\ IdleFields /\ IdleRegistry /\ IdleMerge /\ IdlePublisher /\ IdlePeek /\ IdleSubscriber /\ IdleScope

NextClerk ==
    \/ \E bearer \in BOOLEAN, token \in TokenPool : GetCurrentUser(bearer, token)
    \/ \E user_id \in UserIds : InvalidateUserCache(user_id)
    \/ \E key \in DOMAIN redis : Expire(key)

SpecClerk == InitClerk /\ [][NextClerk]_vars

Invalidated == auth_call.t = "call" /\ auth_call.op = "invalidate_user_cache"

\* the keys of the cache entries that hold the data of user_id
EntriesOf(user_id) ==
    {key \in DOMAIN redis : /\ key.prefix \in {"clerk_user", "clerk_token"}
                            /\ redis[key].clerk_id = user_id}

\* C18: invalidate_user_cache(user_id) invalidates all caches for the user:
\* once it has completed, no cache entry still holds that user's data, neither
\* the entry keyed by the user id nor the entries keyed by the user's tokens
\* (so that get_current_user_production cannot return data cached before).
C18_InvalidateRemovesEveryEntry == Invalidated => EntriesOf(auth_call.arg) = {}

\* C18 for the entry it does remove: once invalidate_user_cache(user_id) has
\* completed, there is no entry keyed by the user id
C18_InvalidateRemovesUserIdEntry ==
    Invalidated => CacheKey("clerk_user", auth_call.arg) \notin DOMAIN redis

----------------------------------------------------------------------------
(* AmqpSubscriber.register_subscriber_with_retry: handler_with_retry *)

MaxRetries == 2

\* a delivered message: the decoded body, the headers (a dict, or None), and
\* the exchange and routing key of the raw message
Delivery(data, headers, exchange, routing_key) ==
    [data |-> data, headers |-> headers, exchange |-> exchange, routing_key |-> routing_key]

\* headers = message.headers or {}
headers_of(message) == IF message.headers = None THEN EmptyKw ELSE message.headers

\* retry_count = headers.get("x-retry-count", 0)
retry_count_of(message) ==
    IF "x-retry-count" \in DOMAIN headers_of(message)
    THEN headers_of(message)["x-retry-count"] ELSE 0

\* the retry test taken with <= in place of <
should_retry_inclusive(retry_count, max_retries) == retry_count <= max_retries

\* if retry_count < max_retries
should_retry(retry_count, max_retries) == retry_count < max_retries

\* new_headers = {**headers, "x-retry-count": retry_count + 1}
new_headers(message) ==
    [h \in DOMAIN headers_of(message) \cup {"x-retry-count"} |->
        IF h = "x-retry-count" THEN retry_count_of(message) + 1 ELSE headers_of(message)[h]]

\* error_data with retries counting the republishes only
error_data_without_first_run(config, message) ==
    [payload |-> message.data, source_queue |-> config.queue,
     source_exchange |-> config.exchange,
     _metadata |-> [final_failure |-> TRUE, retries |-> retry_count_of(message)]]

\* error_data (error_info, error and failed_at, which describe the exception
\* and the clock, are left out)
error_data(config, message) ==
    [payload |-> message.data, source_queue |-> config.queue,
     source_exchange |-> config.exchange,
     _metadata |-> [final_failure |-> TRUE, retries |-> retry_count_of(message) + 1]]

Publication(data, exchange, routing_key, headers) ==
    [data |-> data, exchange |-> exchange, routing_key |-> routing_key, headers |-> headers]

\* what the environment does during one run of the handler: whether func
\* raises, whether broker.publish raises, and whether message.ack() raises in
\* the try block and after a publish
HandlerEnv(func_raises, publish_raises, ack_raises, late_ack_raises) ==
    [func_raises |-> func_raises, publish_raises |-> publish_raises,
     ack_raises |-> ack_raises, late_ack_raises |-> late_ack_raises]

Called(op, arg, ok) == [op |-> op, arg |-> arg, ok |-> ok]

\* the two statements taken in the other order: message.ack(), then the publish
ack_then_publish(publication, env) ==
    IF env.late_ack_raises
    THEN [events |-> <<Called("ack", None, FALSE)>>, raised |-> TRUE]
    ELSE [events |-> <<Called("ack", None, TRUE),
                       Called("publish", publication, ~env.publish_raises)>>,
          raised |-> env.publish_raises]

\* await self.broker.publish(...) followed by await message.ack(): an
\* exception of the publish leaves the handler before the ack
publish_then_ack(publication, env) ==
    IF env.publish_raises
    THEN [events |-> <<Called("publish", publication, FALSE)>>, raised |-> TRUE]
    ELSE [events |-> <<Called("publish", publication, TRUE),
                       Called("ack", None, ~env.late_ack_raises)>>,
          raised |-> env.late_ack_raises]

\* the try block: func, then message.ack(); an exception of either is caught
try_block(env) ==
    IF env.func_raises THEN <<Called("func", None, FALSE)>>
    ELSE <<Called("func", None, TRUE), Called("ack", None, ~env.ack_raises)>>

\* handler_with_retry on one delivery: the calls it makes in order, and
\* whether it returns or lets an exception out
handler_with_retry(config, message, env) ==
    LET tried == try_block(env)
        caught == ~tried[Len(tried)].ok
        settled ==
            IF should_retry(retry_count_of(message), config.max_retries)
            THEN publish_then_ack(Publication(message.data, message.exchange,
                                              message.routing_key, new_headers(message)), env)
            ELSE IF Truthy(config.error_exchange) /\ Truthy(config.error_routing_key)
            THEN publish_then_ack(Publication(error_data(config, message),
                                              config.error_exchange,
                                              config.error_routing_key, None), env)
            ELSE [events |-> <<Called("ack", None, ~env.late_ack_raises)>>,
                  raised |-> env.late_ack_raises]
    IN IF ~caught THEN [events |-> tried, raised |-> FALSE]
       ELSE [events |-> tried \o settled.events, raised |-> settled.raised]

RECURSIVE Publications(_, _)
\* the arguments of the broker.publish calls among events; completed only: the
\* calls that did not raise
Publications(events, completed_only) ==
    IF events = <<>> THEN <<>>
    ELSE (IF Head(events).op = "publish" /\ (Head(events).ok \/ ~completed_only)
          THEN <<Head(events).arg>> ELSE <<>>)
         \o Publications(Tail(events), completed_only)

\* the publications that the broker routes to the subscribed queue again
Redelivered(published) ==
    SelectSeq(published, LAMBDA p : p.exchange = sub_config.exchange)

RECURSIVE AsDeliveries(_)
AsDeliveries(published) ==
    IF published = <<>> THEN <<>>
    ELSE <<Delivery(Head(published).data, Head(published).headers,
                    Head(published).exchange, Head(published).routing_key)>>
         \o AsDeliveries(Tail(published))

\* the broker delivers the head of the queue to handler_with_retry; a delivery
\* whose handler raised is not delivered again
HandlerWithRetry(env) ==
    /\ broker_queue # <<>>
    /\ LET message == Head(broker_queue)
           r == handler_with_retry(sub_config, message, env)
       IN /\ handler_call' = [t |-> "call", message |-> message,
                              fails |-> Len(r.events) > Len(try_block(env)),
                              events |-> r.events, raised |-> r.raised,
                              published |-> Publications(r.events, FALSE)]
          /\ outbox' = outbox \o Publications(r.events, TRUE)
          /\ broker_queue' = Tail(broker_queue)
                                \o AsDeliveries(Redelivered(Publications(r.events, TRUE)))
          /\ runs' = runs + 1
    /\ UNCHANGED sub_config
    /\ UNCHANGED <<fieldVars, registryVars, mergeVars, publisherVars, peekVars, clerkVars, scopeVars>>

----------------------------------------------------------------------------
(* one original message through a subscriber registered with retry *)

HeaderPool ==
    {None, EmptyKw, [h \in {"trace"} |-> 7]}
    \cup {[h \in {"x-retry-count"} |-> k] : k \in 0..(MaxRetries + 1)}

ErrorTargets == {None, StrV(<<>>), StrV(<<"e">>)}

SubscriberConfig(max_retries, error_exchange, error_routing_key) ==
    [queue |-> StrV(<<"q">>), exchange |-> StrV(<<"w">>), max_retries |-> max_retries,
     error_exchange |-> error_exchange, error_routing_key |-> error_routing_key]

InitSubscriber ==
    /\ \E max_retries \in 0..MaxRetries, error_exchange \in ErrorTargets,
          error_routing_key \in ErrorTargets :
           sub_config = SubscriberConfig(max_retries, error_exchange, error_routing_key)
    /\ \E headers \in HeaderPool :
           broker_queue = <<Delivery(DictV([k \in {"job"} |-> IntV(1)]), headers,
                                     StrV(<<"w">>), StrV(<<"k">>))>>
    /\ outbox = <<>> /\ handler_call = NotCalled /\ runs = 0
    /\ IdleFields /\ IdleRegistry /\ IdleMerge /\ IdlePublisher /\ IdlePeek /\ IdleClerk /\ IdleScope

NextSubscriber ==
    \E func_raises, publish_raises, ack_raises, late_ack_raises \in BOOLEAN :
        HandlerWithRetry(HandlerEnv(func_raises, publish_raises, ack_raises, late_ack_raises))

SpecSubscriber == InitSubscriber /\ [][NextSubscriber]_vars

\* the try block of the last call raised
Failed == handler_call.t = "call" /\ handler_call.fails

\* the republish of the message the last call handled: same body, exchange and
\* routing key, x-retry-count one more, every other header as it was
Republish ==
    Publication(handler_call.message.data, handler_call.message.exchange,
                handler_call.message.routing_key,
                [h \in DOMAIN headers_of(handler_call.message) \cup {"x-retry-count"} |->
                    IF h = "x-retry-count" THEN retry_count_of(handler_call.message) + 1
                    ELSE headers_of(handler_call.message)[h]])

Republished == {i \in DOMAIN outbox : outbox[i].exchange = sub_config.exchange}

\* C19: a message whose processing fails is republished to its original
\* exchange and routing key only while its x-retry-count header (0 when
\* absent) is below max_retries, and each republish carries x-retry-count
\* increased by exactly one; hence the wrapped function runs at most
\* max_retries + 1 times for one original message and x-retry-count never
\* exceeds max_retries.
C19_RetriesAreBounded ==
    /\ Failed =>
          IF retry_count_of(handler_call.message) < sub_config.max_retries
          THEN handler_call.published = <<Republish>>
          ELSE \A i \in DOMAIN handler_call.published :
                   handler_call.published[i].exchange # handler_call.message.exchange
    /\ runs <= sub_config.max_retries + 1
    /\ \A i \in Republished : outbox[i].headers["x-retry-count"] <= sub_config.max_retries

\* a message with no retry header failed max_retries + 1 times
C19_Witness ==
    /\ Failed
    /\ sub_config.max_retries >= 1
    /\ runs = sub_config.max_retries + 1
    /\ Cardinality(Republished) = sub_config.max_retries

Configured == Truthy(sub_config.error_exchange) /\ Truthy(sub_config.error_routing_key)

Exhausted == Failed /\ retry_count_of(handler_call.message) >= sub_config.max_retries

\* C20: when the wrapped function fails on a message whose x-retry-count has
\* reached max_retries, the retry handler publishes exactly one error record
\* to the error exchange, provided error_exchange and error_routing_key are
\* configured, containing the original payload, the source queue name, the
\* source exchange name and retries = x-retry-count + 1, and it does not
\* republish the message to its original exchange.
C20_ExhaustedMessageGoesToErrorExchange ==
    Exhausted =>
        /\ Configured =>
              /\ Len(handler_call.published) = 1
              /\ handler_call.published[1].exchange = sub_config.error_exchange
              /\ handler_call.published[1].routing_key = sub_config.error_routing_key
              /\ handler_call.published[1].data.payload = handler_call.message.data
              /\ handler_call.published[1].data.source_queue = sub_config.queue
              /\ handler_call.published[1].data.source_exchange = sub_config.exchange
              /\ handler_call.published[1].data._metadata.retries
                     = retry_count_of(handler_call.message) + 1
        /\ ~Configured => handler_call.published = <<>>
        /\ broker_queue = <<>>

\* the last of max_retries + 1 failures went to the configured error exchange
C20_Witness ==
    /\ Exhausted /\ Configured
    /\ sub_config.max_retries >= 1
    /\ runs = sub_config.max_retries + 1
    /\ Len(handler_call.published) = 1

AckedAt == {i \in DOMAIN handler_call.events :
                handler_call.events[i].op = "ack" /\ handler_call.events[i].ok}
PublishedAt == {i \in DOMAIN handler_call.events : handler_call.events[i].op = "publish"}

\* C21: in the retry handler the incoming message is acknowledged exactly once
\* on every path that returns normally (success, retry scheduled, final
\* failure), on the retry and final-failure paths only after the republish or
\* the error-exchange publish has completed; when that publish raises, the
\* message is not acknowledged.
C21_AckOnceAndAfterPublish ==
    handler_call.t = "call" =>
        /\ ~handler_call.raised => Cardinality(AckedAt) = 1
        /\ \A i \in PublishedAt :
               IF handler_call.events[i].ok THEN \A j \in AckedAt : j > i
               ELSE handler_call.raised /\ AckedAt = {}

\* a retry was published and the message acknowledged after it
C21_Witness ==
    /\ Failed /\ ~handler_call.raised
    /\ PublishedAt # {}
    /\ \A i \in PublishedAt : handler_call.events[i].ok
    /\ Cardinality(AckedAt) = 1

\* the publish of a retry raised and the handler let the exception out
C21_PublishRaised ==
    /\ Failed /\ handler_call.raised
    /\ \E i \in PublishedAt : ~handler_call.events[i].ok

----------------------------------------------------------------------------
(* protected_session: a_create_session, _set_rls_context, a_session_scope *)

IdentifierChars == {"a", "1", "_", "-"}

\* _validate_identifier: not empty, only letters, digits, _ and -, at most 128
\* characters
_validate_identifier(identifier) ==
    /\ identifier.v # <<>>
    /\ \A i \in DOMAIN identifier.v : identifier.v[i] \in IdentifierChars
    /\ Len(identifier.v) <= 128

\* session_maker(): a session with no transaction begun, not closed
NewSession == [t |-> "session", txn |-> "none", closes |-> 0]

\* session.execute(...): the first statement begins the transaction
execute(s) == IF s.txn = "none" THEN [s EXCEPT !.txn = "active"] ELSE s

\* session.commit(): a commit that raises leaves a transaction that needs a
\* rollback
commit(s, raises) == [s EXCEPT !.txn = IF raises THEN "failed" ELSE "committed"]

rollback(s) == [s EXCEPT !.txn = "rolled_back"]

\* session.get_transaction(): the transaction in progress, if any
get_transaction(s) == s.txn \in {"active", "failed"}

\* session.close(): releases the connection; a transaction still in progress
\* is rolled back
session_close(s) ==
    [s EXCEPT !.closes = s.closes + 1,
              !.txn = IF get_transaction(s) THEN "rolled_back" ELSE s.txn]

Did(op, ok) == [op |-> op, ok |-> ok]

\* except Exception: rollback when a transaction is in progress; finally: close
except_and_finally(s) ==
    IF get_transaction(s)
    THEN [session |-> session_close(rollback(s)),
          log |-> <<Did("rollback", TRUE), Did("close", TRUE)>>]
    ELSE [session |-> session_close(s), log |-> <<Did("close", TRUE)>>]

\* a_session_scope up to its yield: the mode and identifier checks,
\* a_create_session with _set_rls_context, SET TRANSACTION READ ONLY in read
\* mode. at is "body" when the session is yielded and "left" when the scope
\* raised instead
scope_enter(mode, tenant_id, tenant_db_id, rls_raises, read_only_raises) ==
    LET created == NewSession
        with_rls == execute(created)
        cleaned == except_and_finally(with_rls)
    IN IF mode \notin {"read", "write"}
       THEN [at |-> "left", raised |-> "ValueError", session |-> None, log |-> <<>>]
       ELSE IF ~_validate_identifier(tenant_id) \/ ~_validate_identifier(tenant_db_id)
       THEN [at |-> "left", raised |-> "ValueError", session |-> None, log |-> <<>>]
       ELSE IF rls_raises
       THEN [at |-> "left", raised |-> "Exception", session |-> created,
             log |-> <<Did("create", TRUE), Did("set_rls", FALSE)>>]
       ELSE IF mode = "read" /\ read_only_raises
       THEN [at |-> "left", raised |-> "Exception", session |-> cleaned.session,
             log |-> <<Did("create", TRUE), Did("set_rls", TRUE), Did("read_only", FALSE)>>
                         \o cleaned.log]
       ELSE [at |-> "body", raised |-> "", session |-> with_rls,
             log |-> <<Did("create", TRUE), Did("set_rls", TRUE)>>
                         \o (IF mode = "read" THEN <<Did("read_only", TRUE)>> ELSE <<>>)]

\* the commit test taken as always true
should_commit_always(mode) == TRUE

\* if mode == "write"
should_commit(mode) == mode = "write"

\* a_session_scope from its yield on. body is how the with-body ended:
\* "returns", "raises" (an Exception) or "cancelled" (a BaseException such as
\* CancelledError, which except Exception lets through)
scope_exit(mode, s, body, commit_raises) ==
    LET committed == commit(s, commit_raises)
        cleaned == except_and_finally(s)
        uncommitted == except_and_finally(committed)
    IN IF body = "raises"
       THEN [raised |-> "Exception", session |-> cleaned.session, log |-> cleaned.log]
       ELSE IF body = "cancelled"
       THEN [raised |-> "CancelledError", session |-> session_close(s),
             log |-> <<Did("close", TRUE)>>]
       ELSE IF ~should_commit(mode)
       THEN [raised |-> "", session |-> session_close(s), log |-> <<Did("close", TRUE)>>]
       ELSE IF commit_raises
       THEN [raised |-> "Exception", session |-> uncommitted.session,
             log |-> <<Did("commit", FALSE)>> \o uncommitted.log]
       ELSE [raised |-> "", session |-> session_close(committed),
             log |-> <<Did("commit", TRUE), Did("close", TRUE)>>]

\* async with a_session_scope(...) is entered
EnterScope(mode, tenant_id, tenant_db_id, rls_raises, read_only_raises) ==
    LET r == scope_enter(mode, tenant_id, tenant_db_id, rls_raises, read_only_raises)
    IN /\ scope = None
       /\ scope' = [t |-> "scope", at |-> r.at, mode |-> mode, tenant_id |-> tenant_id,
                    tenant_db_id |-> tenant_db_id, body |-> "", raised |-> r.raised]
       /\ session' = r.session
       /\ db_log' = r.log
       /\ UNCHANGED <<fieldVars, registryVars, mergeVars, publisherVars, peekVars, clerkVars,
                      subscriberVars>>

\* the body of the with statement runs on the yielded session and ends; it may
\* have rolled its transaction back itself
Body(ends, rolls_back) ==
    /\ scope # None /\ scope.at = "body"
    /\ scope' = [scope EXCEPT !.at = "exit", !.body = ends]
    /\ session' = IF rolls_back THEN rollback(session) ELSE execute(session)
    /\ db_log' = db_log \o <<Did("body", ends = "returns")>>
    /\ UNCHANGED <<fieldVars, registryVars, mergeVars, publisherVars, peekVars, clerkVars,
                   subscriberVars>>

\* the scope is left: commit, except and finally
ExitScope(commit_raises) ==
    /\ scope # None /\ scope.at = "exit"
    /\ LET r == scope_exit(scope.mode, session, scope.body, commit_raises)
       IN /\ scope' = [scope EXCEPT !.at = "left", !.raised = r.raised]
          /\ session' = r.session
          /\ db_log' = db_log \o r.log
    /\ UNCHANGED <<fieldVars, registryVars, mergeVars, publisherVars, peekVars, clerkVars,
                   subscriberVars>>

----------------------------------------------------------------------------
(* one a_session_scope from entry to exit *)

ModePool == {"read", "write", "admin"}
IdentifierPool == {StrV(<<"a", "1">>), StrV(<<"a", "-", "1">>), StrV(<<>>), StrV(<<"a", " ">>)}
BodyEnds == {"returns", "raises", "cancelled"}

InitScope ==
    /\ scope = None /\ session = None /\ db_log = <<>>
    /\ IdleFields /\ IdleRegistry /\ IdleMerge
    /\ IdlePublisher /\ IdlePeek /\ IdleClerk /\ IdleSubscriber

NextScope ==
    \/ \E mode \in ModePool, tenant_id \in IdentifierPool, tenant_db_id \in IdentifierPool,
          rls_raises \in BOOLEAN, read_only_raises \in BOOLEAN :
           EnterScope(mode, tenant_id, tenant_db_id, rls_raises, read_only_raises)
    \/ \E ends \in BodyEnds, rolls_back \in BOOLEAN : Body(ends, rolls_back)
    \/ \E commit_raises \in BOOLEAN : ExitScope(commit_raises)

SpecScope == InitScope /\ [][NextScope]_vars

Logged(op) == {i \in DOMAIN db_log : db_log[i].op = op}
Left == scope # None /\ scope.at = "left"

\* C22: a_session_scope commits only in write mode and only after the body has
\* completed without an exception; when the body or the commit raises, the
\* active transaction is rolled back and the exception is re-raised to the
\* caller; in read mode the session is never committed.
C22_CommitOnlyAfterCleanWriteBody ==
    /\ \A i \in Logged("commit") :
           /\ scope.mode = "write"
           /\ \E j \in Logged("body") : j < i /\ db_log[j].ok
    /\ Left /\ (scope.body \in {"raises", "cancelled"} \/ \E i \in Logged("commit") : ~db_log[i].ok)
           => /\ scope.raised # ""
              /\ session.txn = "rolled_back"
              /\ scope.body = "raises" => scope.raised = "Exception"
              /\ scope.body = "cancelled" => scope.raised = "CancelledError"
    /\ scope # None /\ scope.mode = "read" => session = None \/ session.txn # "committed"

\* the commit of a write scope raised, the transaction was rolled back
C22_Witness ==
    /\ Left /\ scope.mode = "write" /\ scope.body = "returns"
    /\ \E i \in Logged("commit") : ~db_log[i].ok
    /\ Logged("rollback") # {}
    /\ session.txn = "rolled_back" /\ scope.raised = "Exception"

\* C23: every session that a_session_scope creates is closed exactly once
\* before the scope is left, in each of these cases: the body succeeds, the
\* body raises, the commit raises, setting the transaction read-only fails,
\* and setting the RLS tenant context on the new session fails.
C23_SessionClosedExactlyOnce == Left /\ session # None => session.closes = 1

\* C23 without its last case: a session whose RLS context was set is closed
\* exactly once before the scope is left
C23_SessionWithContextClosedOnce ==
    Left /\ session # None /\ (\E i \in Logged("set_rls") : db_log[i].ok) => session.closes = 1

----------------------------------------------------------------------------
(* RabbitMQPeeker.resend_messages and discard_messages *)

MaxDrain == 2
MaxLimit == 2

\* the counters of results are told apart up to CountCap and stay there
CountCap == MaxDrain + MaxLimit + 1
Inc(n) == IF n < CountCap THEN n + 1 ELSE n

NoResults == [total_processed |-> 0, successfully_resent |-> 0, failed |-> 0,
              skipped |-> 0, discarded |-> 0]

\* what the channel does during one pass of the loop: whether basic_publish,
\* basic_ack and basic_reject raise
ChannelEnv(publish_raises, ack_raises, reject_raises) ==
    [publish_raises |-> publish_raises, ack_raises |-> ack_raises,
     reject_raises |-> reject_raises]

\* what a pass of the loop did with the message it fetched: the results, and
\* whether the message was acknowledged ("acked"), rejected with requeue
\* ("requeued") or left on the channel ("unacked"); raised when an exception
\* left the inner try
Pass(results, settled, raised) == [results |-> results, settled |-> settled, raised |-> raised]

\* _resend_single_message: True, or False when basic_publish or basic_ack raised
_resend_single_message(remove_from_queue, env) ==
    ~env.publish_raises /\ ~(remove_from_queue /\ env.ack_raises)

\* except Exception of resend_messages: failed += 1, then basic_reject
resend_except(results, env) ==
    Pass([results EXCEPT !.failed = Inc(@)],
         IF env.reject_raises THEN "unacked" ELSE "requeued", env.reject_raises)

\* the inner try of resend_messages on one fetched message
resend_one(results, message, service_filter, remove_from_queue, env) ==
    IF ~message.complete
    THEN IF env.reject_raises THEN resend_except(results, env)
         ELSE Pass([results EXCEPT !.failed = Inc(@)], "requeued", FALSE)
    ELSE IF Truthy(service_filter) /\ ~In(message.service_name, service_filter.v)
    THEN IF env.reject_raises THEN resend_except(results, env)
         ELSE Pass([results EXCEPT !.skipped = Inc(@)], "requeued", FALSE)
    ELSE IF _resend_single_message(remove_from_queue, env)
    THEN Pass([results EXCEPT !.successfully_resent = Inc(@)],
              IF remove_from_queue THEN "acked" ELSE "unacked", FALSE)
    ELSE IF env.reject_raises
    THEN resend_except([results EXCEPT !.failed = Inc(@)], env)
    ELSE Pass([results EXCEPT !.failed = Inc(@)], "requeued", FALSE)

\* the inner try of discard_messages on one fetched message
discard_one(results, message, service_filter, env) ==
    IF service_filter # None /\ ~In(message.service_name, service_filter.v)
    THEN IF env.reject_raises THEN Pass(results, "unacked", TRUE)
         ELSE Pass([results EXCEPT !.skipped = Inc(@)], "requeued", FALSE)
    ELSE IF env.ack_raises
    THEN Pass(results, IF env.reject_raises THEN "unacked" ELSE "requeued", env.reject_raises)
    ELSE Pass([results EXCEPT !.discarded = Inc(@)], "acked", FALSE)

\* if limit and processed >= limit
limit_reached(limit, processed) == Truthy(limit) /\ processed >= limit.v

Running == peek_call.t = "running"

\* resend_messages / discard_messages is called: the channel and results
StartDrain(op, service_filter, limit, remove_from_queue, at) ==
    /\ peek_call = NotCalled
    /\ peek_call' = [t |-> "running", op |-> op, service_filter |-> service_filter,
                     limit |-> limit, remove_from_queue |-> remove_from_queue, at |-> at,
                     results |-> NoResults, unacked |-> <<>>, reject_raised |-> FALSE]
    /\ UNCHANGED error_queue
    /\ UNCHANGED <<fieldVars, registryVars, mergeVars, publisherVars, clerkVars,
                   subscriberVars, scopeVars>>

\* the loop ends (limit reached, queue empty, or an exception reached the
\* outer try): the connection is closed and the results are returned
Return(call) ==
    /\ peek_call' = [call EXCEPT !.t = "call", !.unacked = <<>>]
    /\ error_queue' = requeue_all(error_queue, call.unacked, call.at)

\* one pass of while True
DrainStep(env) ==
    /\ Running
    /\ IF limit_reached(peek_call.limit, peek_call.results.total_processed)
          \/ error_queue = <<>>
       THEN Return(peek_call)
       ELSE LET message == Head(error_queue)
                counted == [peek_call.results EXCEPT !.total_processed = Inc(@)]
                pass == IF peek_call.op = "resend_messages"
                        THEN resend_one(counted, message, peek_call.service_filter,
                                        peek_call.remove_from_queue, env)
                        ELSE discard_one(counted, message, peek_call.service_filter, env)
                call == [peek_call EXCEPT
                            !.results = pass.results,
                            !.reject_raised = @ \/ pass.raised,
                            !.unacked = IF pass.settled = "unacked"
                                        THEN Append(@, message) ELSE @]
                rest == IF pass.settled = "requeued"
                        THEN requeue(Tail(error_queue), message, peek_call.at)
                        ELSE Tail(error_queue)
            IN IF pass.raised
               THEN /\ peek_call' = [call EXCEPT !.t = "call", !.unacked = <<>>]
                    /\ error_queue' = requeue_all(rest, call.unacked, call.at)
               ELSE /\ peek_call' = call
                    /\ error_queue' = rest
    /\ UNCHANGED <<fieldVars, registryVars, mergeVars, publisherVars, clerkVars,
                   subscriberVars, scopeVars>>

----------------------------------------------------------------------------
(* draining error queues of up to MaxDrain messages *)

DrainRecord(id, service_name, complete) ==
    [id |-> id, service_name |-> service_name, redelivered |-> FALSE, complete |-> complete]

\* error records of two services, one of them without its source exchange
DrainRecordPool == {DrainRecord(1, "billing", TRUE), DrainRecord(2, "mail", TRUE),
                    DrainRecord(3, "billing", FALSE)}

RECURSIVE DrainQueues(_)
DrainQueues(n) ==
    IF n = 0 THEN {<<>>}
    ELSE {Append(q, m) : q \in DrainQueues(n - 1), m \in DrainRecordPool}

DrainFilters == {None, ListV(<<>>), ListV(<<"billing">>)}
Limits == {None} \cup {IntV(n) : n \in 0..MaxLimit}
ChannelEnvs == {ChannelEnv(p, a, r) : p \in BOOLEAN, a \in BOOLEAN, r \in BOOLEAN}

InitDrain ==
    /\ \E n \in 0..MaxDrain : \E q \in DrainQueues(n) :
           /\ \A i, j \in DOMAIN q : q[i].id = q[j].id => i = j
           /\ error_queue = q
    /\ peek_call = NotCalled
    /\ IdleFields /\ IdleRegistry /\ IdleMerge
    /\ IdlePublisher /\ IdleClerk /\ IdleSubscriber /\ IdleScope

Steps == \E env \in ChannelEnvs : DrainStep(env)

NextDrain ==
    \/ \E op \in {"resend_messages", "discard_messages"}, service_filter \in DrainFilters,
          limit \in Limits, remove_from_queue \in BOOLEAN, at \in {"head", "tail"} :
           /\ op = "discard_messages" => remove_from_queue
           /\ StartDrain(op, service_filter, limit, remove_from_queue, at)
    \/ Steps

\* a call that has started keeps running: the loop is synchronous code
SpecDrain == InitDrain /\ [][NextDrain]_vars /\ WF_vars(Steps)

Returned == peek_call.t = "call"

\* C24: resend_messages and discard_messages called with limit=None terminate
\* on an error queue that holds finitely many messages, including when some
\* messages are skipped by service_filter or fail and are therefore rejected
\* with requeue.
C24_DrainTerminates == (Running /\ peek_call.limit = None) ~> Returned

\* C24 for the calls that do terminate: with a limit of at least one, the
\* call returns
C24_DrainWithLimitTerminates == (Running /\ Truthy(peek_call.limit)) ~> Returned

\* C25: when resend_messages returns, total_processed = successfully_resent +
\* failed + skipped, also when an acknowledge or reject call on the channel
\* raises (for counts below CountCap).
C25_OutcomesAddUp ==
    /\ Returned /\ peek_call.op = "resend_messages"
    /\ peek_call.results.total_processed < CountCap
    =>
        peek_call.results.total_processed
            = peek_call.results.successfully_resent + peek_call.results.failed
              + peek_call.results.skipped

\* C25 while basic_reject works: the three outcomes add up to total_processed
C25_OutcomesAddUpWhenRejectWorks ==
    /\ Returned /\ peek_call.op = "resend_messages" /\ ~peek_call.reject_raised
    /\ peek_call.results.total_processed < CountCap
    =>
        peek_call.results.total_processed
            = peek_call.results.successfully_resent + peek_call.results.failed
              + peek_call.results.skipped

----------------------------------------------------------------------------
(* build_dynamic_model over one descriptor of each kind *)

KindLabels == {StrV(<<"I", "d">>), StrV(<<"i", "d">>), StrV(<<"I", "D">>)}

\* the twelve descriptor kinds
PlainKinds == {"StrField", "IntField", "FloatField", "BoolField", "DateField", "DateTimeField",
               "EmailField", "UuidField", "JsonField", "ListField"}

KindCtorPool ==
    UNION {{Call(cls, [label |-> l]) : cls \in PlainKinds}
           \cup {Call("EnumField", [label |-> l, allowed_values |-> ListV(<<StrV(<<"a">>)>>)]),
                 Call("ObjectField",
                      [label |-> l,
                       fields |-> ListV(<<Construct("StrField", [label |-> StrV(<<"a">>)])>>)])}
           : l \in KindLabels}

InitKinds ==
    /\ \E c \in KindCtorPool : ctor_calls = <<c>>
    /\ fields = NotCalled
    /\ model_cls = NotCalled
    /\ instance = NotCalled
    /\ IdleFunc /\ IdleRegistry /\ IdleMerge /\ IdleService

SpecKinds == InitKinds /\ [][NextFields]_vars

\* the kinds whose to_pydantic_field returns self.label
LabelKeepingKinds == {"StrField", "IntField", "FloatField", "EnumField", "JsonField", "ListField"}

\* C26: for every descriptor kind (string, int, float, bool, date, datetime,
\* email, enum, UUID, JSON, list, nested object), the field of the built record
\* type is named exactly the descriptor's label, with its letter case unchanged.
C26_FieldIsNamedByLabel ==
    model_cls.t = "model_cls" =>
        \A i \in 1..Len(fields.v) : KeysOf(model_cls.defs) = {fields.v[i].label.v}

\* C26 for the kinds that return self.label: the field is named exactly the
\* label; for the other kinds it is named the label in lower case
C26_FieldIsNamedByLabelOrLowered ==
    model_cls.t = "model_cls" =>
        \A i \in 1..Len(fields.v) :
            KeysOf(model_cls.defs)
                = {IF fields.v[i].cls \in LabelKeepingKinds THEN fields.v[i].label.v
                   ELSE lower(fields.v[i].label.v)}

====
